---- MODULE Spec2Model ----
(***************************************************************************)
(* Mini-car-3D: the authoritative host (the multiplayer server module) and *)
(* the browser client (src/game.js), modelled as state machines.           *)
(*                                                                         *)
(*   Spec        the host alone: sessions joining, closing, being swept    *)
(*   SpecInput   the host alone: sessions and the frames peers send        *)
(*   SpecClient  the client alone on an arbitrary host                     *)
(*   SpecRemote  the client with other players' messages                   *)
(*   SpecTick    the client's frame loop at every frame delta              *)
(*   SpecSystem  the client connected to the host over an ordered wire     *)
(*   SpecSim, SpecProps, SpecMailbox   the host's timers, props and inputs *)
(*   SpecInterp, SpecInterpMissing     interpolateState by itself          *)
(*   SpecRender, SpecBuffer, SpecGround   the client's rendering, snapshot *)
(*                buffer and ground contacts                               *)
(*   SpecTimers, SpecSimLive   the host's timers step by step, and with    *)
(*                fair scheduling                                          *)
(*   SpecCars    the client's remote cars being created and removed        *)
(*   SpecStatus  the client's status indicator, listener by listener       *)
(*   SpecReconnect   the client's reconnect cycle with fair scheduling     *)
(***************************************************************************)
EXTENDS Integers, Sequences, FiniteSets, TLC

\* ------------------------------------------------------------------ bounds
MaxConn == 2           \* transport connections ever opened to the host
MaxSeq == 2            \* largest input sequence number a peer sends
MaxTick == 2           \* host physics ticks modelled
MaxClockSteps == 2     \* host clock advances (each of two heartbeat intervals)
MaxWire == 2           \* host->client messages in flight per connection
MaxBuf == 3            \* snapshots the client holds before the host pauses
MaxProbes == 2         \* reachability probes in flight at once
MaxNow == 330          \* client clock horizon, ms
MaxContacts == 3       \* contacts counted on the player's collider at once
MaxRenderBuf == 5      \* snapshots the client holds when only rendering is modelled
HostEpoch == 1000      \* Date.now() on the host when it starts

\* ------------------------------------------------------- program constants
HEARTBEAT_MS == 15000

WsIds == 1..MaxConn
\* A session id is a fresh randomUUID() per connection: the session of
\* connection w is identified with w itself.
HostClockStep == 2 * HEARTBEAT_MS
HostTimes == {HostEpoch + k * HostClockStep : k \in 0..MaxClockSteps}

Min(a, b) == IF a < b THEN a ELSE b
Max(a, b) == IF a > b THEN a ELSE b

VARIABLES
  \* ---- host
  physics,        \* "loading" | "ready" | "failed": the physicsReady promise
  loopsStarted,   \* the three setInterval timers of startLoops exist
  awaiting,       \* connections whose handleConnection awaits initPhysics, in order
  hostWs,         \* host-side readyState per connection: "none" | "open" | "closing" | "closed"
  registered,     \* connections whose message/close listeners are attached
  clients,        \* the clients Map: session id -> entry
  bodies,         \* handles of the player rigid bodies present in the world
  tick,           \* the tick counter
  hostNow,        \* Date.now() on the host
  crashed,        \* an exception escaped an event listener: the process is gone
  \* ---- host, observation only
  welcome,        \* per connection: was a welcome delivered, and its players list
  joinInfo,       \* per connection: who was connected / open when it joined
  sentJoined,     \* sentJoined[r][id]: player-joined(id) messages delivered to r
  sentLeft,       \* sentLeft[r][id]: player-left(id) messages delivered to r
  openAtSweep,    \* per session: the sessions that were open when the sweep removed it
  removeCalls,    \* removePlayer(id) invocations per id
  entryRemovals,  \* clients.delete(id) that removed an entry, per id
  bodyRemovals,   \* world.removeRigidBody calls made for id's body, per id
  swept,          \* sessions the heartbeat sweep has force-closed
  closeHandled,   \* connections whose close listener has run
  live,           \* sessions joined and not yet closed or swept
  wire,           \* host->client messages in flight, per connection
  stamps,         \* the tick stamped into the last snapshot built (-1: none), whether
                  \* two snapshots in a row were stamped with one tick, and the ids
                  \* of the last snapshot's player and prop records
  propBody,       \* the rigid body of each prop: position, yaw, velocities
  lastStep,       \* the last physics step: sessions given input with a socket not OPEN,
                  \* closed connections whose session's body it found, cars too fast,
                  \* cars given the speed clamp, the props as world.step() left them,
                  \* the input applyInputs last read for each session, the sessions that
                  \* had sent more than one input since the step before
  lastSweep,      \* the last heartbeat sweep: the open sessions heard from within two
                  \* heartbeat intervals that it did not ping, and whether it pinged one
                  \* heard from exactly two intervals before
  heard,          \* per connection: the input messages noted since the last physics
                  \* step, counted up to two, and the frame of the last of them
  \* ---- client (src/game.js)
  phase,             \* startGame: "loadingCar" | "startupProbe" | "running"
  mode,              \* NETWORK.mode
  statusOnline,      \* the net-online class of the status indicator
  offlineWorldReady,
  clientProps,       \* clientProps.length
  serverProps,       \* keys of the serverProps Map
  propMeshes,        \* server-prop meshes in the scene, per prop id
  remotePlayers,     \* per id: "none" | "loading" | "ready" (the remotePlayers Map)
  staleJobs,         \* ids with a car creation in progress whose placeholder left the Map
  orphanCars,        \* ids with a car in the scene that no Map entry refers to
  carJobs,           \* per id: the makeCar calls started for the entry the Map holds, and
                     \* the callers that have asked spawnRemotePlayer for the id since
  cliSock,           \* client-side readyState per connection
  socket,            \* NETWORK.socket (0 = null)
  reconnectTimer,    \* NETWORK.reconnectTimer is set
  pendingTimers,     \* reconnect timeouts scheduled and not yet fired
  timerProbes,       \* initNetwork calls started by the timer, awaiting the probe
  snapshotBuffer,    \* NETWORK.snapshotBuffer
  serverTimeOffset,  \* NETWORK.serverTimeOffset
  netId,             \* NETWORK.id (0 = null)
  seq,               \* NETWORK.seq
  lastSend,          \* NETWORK.lastSend
  now,               \* performance.now(), ms
  accumulator,       \* in units of 1/3000 s
  playerGroundContacts,
  playerGrounded,
  \* ---- client, observation only
  stepCount,         \* stepPhysics calls since the accumulator was last reset
  totalAccum,        \* time accumulated since the accumulator was last reset
  frameSteps,        \* stepPhysics calls made by the last tick()
  stepDts,           \* the dt arguments stepPhysics has been called with
  lastPushed,        \* serverTime of the snapshot pushed last (0: none since the buffer was emptied)
  repeats,           \* handlers that have run again in the mode they lead to
  interp,            \* the two states and alpha given to interpolateState, and its result
  contactEvents,     \* the events the last tick() handed to updateGroundState, in order
  frameCalls,        \* which of stepPhysics, applySnapshotInterpolation and sendInput
                     \* the last tick() called
  render             \* the last applySnapshotInterpolation that found snapshots: its render
                     \* time, the entries it pruned, the times of prev and next, and
                     \* alpha as the fraction num/den

simVars == <<propBody, lastStep, lastSweep, heard>>

hostVars == <<simVars, physics, loopsStarted, awaiting, hostWs, registered, clients, bodies,
              tick, stamps, hostNow, crashed, welcome, joinInfo, sentJoined, sentLeft,
              openAtSweep, removeCalls, entryRemovals, bodyRemovals, swept,
              closeHandled, live, wire>>

clientVars == <<phase, mode, statusOnline, offlineWorldReady, clientProps, serverProps,
                propMeshes, repeats, interp,
                remotePlayers, staleJobs, orphanCars, carJobs, cliSock, socket,
                reconnectTimer,
                pendingTimers, timerProbes, snapshotBuffer, serverTimeOffset, netId,
                seq, lastSend, now, accumulator, stepCount, totalAccum, frameSteps,
                stepDts, lastPushed, playerGroundContacts, playerGrounded, contactEvents,
                frameCalls, render>>

vars == <<hostVars, clientVars>>

\* ------------------------------------------------------------ host: state
ZeroInput == [steer |-> 0, throttle |-> 0, brake |-> FALSE]

\* The part of the host state the helper functions below read and change;
\* pinged: the sessions the heartbeat sweep under way has sent a ping.
HostState == [clients |-> clients, bodies |-> bodies, hostWs |-> hostWs,
              sentJoined |-> sentJoined, sentLeft |-> sentLeft,
              removeCalls |-> removeCalls, entryRemovals |-> entryRemovals,
              bodyRemovals |-> bodyRemovals, swept |-> swept,
              openAtSweep |-> openAtSweep, wire |-> wire, pinged |-> {}]

\* A connection the modelled browser client owns: what the host sends on it is
\* put on the wire.  (Defined below the client's variables.)
Wired(w) == cliSock[w] # "unused"

\* client.ws && client.ws.readyState === client.ws.OPEN
IsOpen(st, w) == w # 0 /\ st.hostWs[w] = "open"

\* ws.send(payload): delivered only on an OPEN socket.
SendTo(st, w, msg) ==
  IF ~IsOpen(st, w) THEN st
  ELSE LET counted ==
             IF msg.type = "player-joined"
               THEN [st EXCEPT !.sentJoined[w][msg.id] = @ + 1]
             ELSE IF msg.type = "player-left"
               THEN [st EXCEPT !.sentLeft[w][msg.id] = @ + 1]
             ELSE st
       IN IF Wired(w) THEN [counted EXCEPT !.wire[w] = Append(@, msg)] ELSE counted

\* broadcast(data, skipId): every entry but skipId whose socket is OPEN.
RECURSIVE broadcastFrom(_, _, _, _)
broadcastFrom(st, i, msg, skipId) ==
  IF i > MaxConn THEN st
  ELSE IF i \in DOMAIN st.clients /\ i # skipId
    THEN broadcastFrom(SendTo(st, st.clients[i].ws, msg), i + 1, msg, skipId)
    ELSE broadcastFrom(st, i + 1, msg, skipId)

\* A broadcast that skips nobody.
broadcastToAll(st, msg, skipId) == broadcastFrom(st, 1, msg, 0)

broadcast(st, msg, skipId) == broadcastFrom(st, 1, msg, skipId)

\* An arena that hands out the same handle every time.
SameHandle(st) == 1

\* world.createRigidBody: the arena hands out the lowest free handle.
NewHandle(st) == CHOOSE h \in 1..(MaxConn + 1) :
                   h \notin st.bodies /\ \A g \in 1..(h - 1) : g \in st.bodies

\* spawn: the x and z the body is created at, in whole units.
spawnPlayer(st, id, t) ==
  LET h == NewHandle(st)
      size == Cardinality(DOMAIN st.clients)
  IN [st EXCEPT !.bodies = @ \cup {h},
                !.clients = [k \in DOMAIN @ \cup {id} |->
                               IF k = id
                                 THEN [ws |-> 0, bodyHandle |-> h, lastInput |-> ZeroInput,
                                       lastSeq |-> 0, lastSeen |-> t,
                                       spawn |-> <<(size % 4) * 4 - 4, (size \div 4) * 4 - 4>>]
                                 ELSE @[k]]]

\* The text of the session ids: four randomUUID() values, as character codes;
\* connection w has the w-th of them.
SessionIdTexts ==
  <<<<54, 53, 49, 51, 50, 55, 48, 101, 45, 50, 54, 57, 101, 45, 52, 100, 51, 55, 45, 98, 50,
      97, 55, 45, 52, 100, 101, 52, 53, 50, 101, 54, 98, 52, 51, 56>>,
    <<100, 50, 51, 102, 48, 56, 50, 52, 45, 49, 50, 56, 98, 45, 52, 102, 51, 51, 45, 56, 99,
      53, 99, 45, 55, 102, 100, 48, 97, 54, 97, 51, 97, 52, 53, 48>>,
    <<57, 53, 51, 49, 57, 56, 53, 100, 45, 53, 100, 57, 100, 45, 52, 57, 102, 56, 45, 57, 56,
      49, 56, 45, 101, 56, 49, 49, 56, 57, 50, 102, 57, 48, 50, 98>>,
    <<51, 54, 102, 54, 55, 53, 99, 99, 45, 56, 49, 101, 55, 45, 52, 101, 102, 53, 45, 97, 56,
      101, 50, 45, 53, 100, 57, 52, 48, 101, 100, 57, 48, 52, 55, 53>>>>

IdText(w) == SessionIdTexts[((w - 1) % Len(SessionIdTexts)) + 1]

\* The x and z of SAFE_SPAWN_SLOTS.
SAFE_SPAWN_SLOTS ==
  <<<<0, 0>>, <<4, 0>>, <<-4, 0>>, <<0, 4>>, <<0, -4>>, <<4, 4>>, <<-4, 4>>, <<4, -4>>,
    <<-4, -4>>>>

\* hashIdForSlot: hash = (hash * 31 + charCode) >>> 0 over the text, the
\* 32-bit value kept as two halves of 16 bits.
RECURSIVE hashFrom(_, _, _, _)
hashFrom(text, i, hi, lo) ==
  IF i > Len(text) THEN [hi |-> hi, lo |-> lo]
  ELSE hashFrom(text, i + 1, (hi * 31 + (lo * 31 + text[i]) \div 65536) % 65536,
                (lo * 31 + text[i]) % 65536)

hashIdForSlot(text) == hashFrom(text, 1, 0, 0)

\* getSafeSpawnTransform(id): the slot at hash % SAFE_SPAWN_SLOTS.length, the
\* safe zone being centred on the origin.
getSafeSpawnTransform(text) ==
  LET hash == hashIdForSlot(text)
      idx == ((hash.hi % Len(SAFE_SPAWN_SLOTS)) * (65536 % Len(SAFE_SPAWN_SLOTS)) + hash.lo)
               % Len(SAFE_SPAWN_SLOTS)
  IN SAFE_SPAWN_SLOTS[idx + 1]

\* A removePlayer that deletes the entry and leaves its body in the world.
removePlayerKeepBody(st, id) ==
  LET called == [st EXCEPT !.removeCalls[id] = @ + 1]
  IN IF id \notin DOMAIN st.clients THEN called
     ELSE [called EXCEPT !.clients = [k \in DOMAIN @ \ {id} |-> @[k]],
                         !.entryRemovals[id] = @ + 1]

removePlayer(st, id) ==
  LET called == [st EXCEPT !.removeCalls[id] = @ + 1]
  IN IF id \notin DOMAIN st.clients THEN called
     ELSE LET h == st.clients[id].bodyHandle
              hasBody == h \in st.bodies
          IN [called EXCEPT
                !.bodies = IF hasBody THEN @ \ {h} ELSE @,
                !.bodyRemovals[id] = IF hasBody THEN @ + 1 ELSE @,
                !.clients = [k \in DOMAIN @ \ {id} |-> @[k]],
                !.entryRemovals[id] = @ + 1]

\* playerSnapshot(id): null without an entry or without its body.
HasSnapshot(st, id) == id \in DOMAIN st.clients /\ st.clients[id].bodyHandle \in st.bodies

\* ---------------------------------------------------------- host: messages
HOST_PROP_COUNT == 18
HostPropIds == 1..HOST_PROP_COUNT

WelcomeMsg(id, players, t) ==
  [type |-> "welcome", id |-> id, props |-> HostPropIds, players |-> players,
   serverTime |-> t]

\* The props createProps() makes from mulberry32(1337), p0 first: whether the
\* body is dynamic, the initial position in 1/100 of a unit and the initial yaw
\* in whole degrees.
PROPS ==
  <<[dynamic |-> FALSE, p |-> <<-357, 68, 80>>, yaw |-> 197],
     [dynamic |-> TRUE, p |-> <<-315, 52, -892>>, yaw |-> 287],
     [dynamic |-> TRUE, p |-> <<-873, 48, -144>>, yaw |-> 105],
     [dynamic |-> TRUE, p |-> <<522, 52, -953>>, yaw |-> 268],
     [dynamic |-> FALSE, p |-> <<-339, 65, -681>>, yaw |-> 4],
     [dynamic |-> FALSE, p |-> <<213, 65, -168>>, yaw |-> 170],
     [dynamic |-> TRUE, p |-> <<-722, 47, -1121>>, yaw |-> 47],
     [dynamic |-> FALSE, p |-> <<701, 50, 116>>, yaw |-> 189],
     [dynamic |-> TRUE, p |-> <<1001, 51, -827>>, yaw |-> 102],
     [dynamic |-> TRUE, p |-> <<-1080, 71, 1104>>, yaw |-> 232],
     [dynamic |-> FALSE, p |-> <<430, 74, 248>>, yaw |-> 175],
     [dynamic |-> FALSE, p |-> <<-484, 67, 343>>, yaw |-> 67],
     [dynamic |-> FALSE, p |-> <<-1407, 77, -43>>, yaw |-> 238],
     [dynamic |-> TRUE, p |-> <<-270, 70, 528>>, yaw |-> 38],
     [dynamic |-> TRUE, p |-> <<307, 60, 250>>, yaw |-> 59],
     [dynamic |-> TRUE, p |-> <<-225, 54, 1146>>, yaw |-> 41],
     [dynamic |-> FALSE, p |-> <<1048, 76, -411>>, yaw |-> 136],
     [dynamic |-> TRUE, p |-> <<-1165, 48, -625>>, yaw |-> 251]>>

ZeroVec == <<0, 0, 0>>

\* A rigid body as the host reads it: translation, rotation, linvel, angvel.
Body(p, yaw, lv, av) == [p |-> p, yaw |-> yaw, lv |-> lv, av |-> av]

\* createProps(): every prop's body at its initial transform, at rest.
createProps == [i \in HostPropIds |-> Body(PROPS[i].p, PROPS[i].yaw, ZeroVec, ZeroVec)]

\* The play area of resetPropIfOutOfBounds, in 1/100 of a unit.
BOUND_XZ == 20000
BOUND_Y == 0 - 2000

Abs(x) == IF x < 0 THEN 0 - x ELSE x

\* A reset that keeps the body's velocities.
resetPropKeepVelocity(prop, body) ==
  IF ~prop.dynamic THEN body
  ELSE IF Abs(body.p[1]) > BOUND_XZ \/ body.p[2] < BOUND_Y \/ Abs(body.p[3]) > BOUND_XZ
    THEN Body(prop.p, prop.yaw, body.lv, body.av)
    ELSE body

\* resetPropIfOutOfBounds(prop): the body it leaves.
resetPropIfOutOfBounds(prop, body) ==
  IF ~prop.dynamic THEN body
  ELSE IF Abs(body.p[1]) > BOUND_XZ \/ body.p[2] < BOUND_Y \/ Abs(body.p[3]) > BOUND_XZ
    THEN Body(prop.p, prop.yaw, ZeroVec, ZeroVec)
    ELSE body

\* applyInputs(dt): the sessions whose lastInput is turned into impulses.
applyInputs(st) ==
  {id \in DOMAIN st.clients :
     IsOpen(st, st.clients[id].ws) /\ st.clients[id].bodyHandle \in st.bodies}

\* The impulses applyInputs gives one session's body: engine, steering
\* torque, brake when braking, sideways grip, downforce.  The body's speed
\* enters the steering scale and the downforce, nothing else.
hostImpulses(input, speed) ==
  {"engine", "steer", "sideGrip", "downForce"} \cup (IF input.brake THEN {"brake"} ELSE {})

\* The client's forward top speed and the margin of its speed clamp, in 1/100
\* of a unit per second.
MAX_SPEED == 1100
SPEED_MARGIN == 35

\* The body spawnPlayer made for session id is in the world: it was created
\* and removePlayer has not removed it.
BodyInWorld(st, id) ==
  (id \in DOMAIN st.clients \/ st.entryRemovals[id] > 0) /\ st.bodyRemovals[id] = 0

\* A snapshot that carries no tick of its own: every one is stamped 0.
buildSnapshotUnstamped(st, tk, t) ==
  [type |-> "snapshot", tick |-> 0, serverTime |-> t,
   players |-> {id \in DOMAIN st.clients : HasSnapshot(st, id)},
   props |-> {i \in DOMAIN propBody : PROPS[i].dynamic}]

\* A snapshot with a record for every prop, fixed ones included.
buildSnapshotAllProps(st, tk, t) ==
  [type |-> "snapshot", tick |-> tk, serverTime |-> t,
   players |-> {id \in DOMAIN st.clients : HasSnapshot(st, id)},
   props |-> DOMAIN propBody]

\* buildSnapshot(): the tick, the time, one record per entry that has a body
\* and one per dynamic prop (every prop has its body).
buildSnapshot(st, tk, t) ==
  [type |-> "snapshot", tick |-> tk, serverTime |-> t,
   players |-> {id \in DOMAIN st.clients : HasSnapshot(st, id)},
   props |-> {i \in DOMAIN propBody : PROPS[i].dynamic}]

\* What a peer may put in a frame.  kind is what JSON.parse makes of it:
\* "unparseable" throws, "null" gives null, "scalar" a number or a string,
\* "object" an object with the given type and the fields named in has.
Frame(kind, type, has, steer, throttle, brake, sq) ==
  [kind |-> kind, type |-> type, has |-> has, steer |-> steer, throttle |-> throttle,
   brake |-> brake, seq |-> sq]

InputFields == {"steer", "throttle", "seq"}

WellFormedInputs == {Frame("object", "input", InputFields, 1, 1, FALSE, sq) : sq \in 1..MaxSeq}

MalformedFrames ==
  { Frame("unparseable", "", {}, 0, 0, FALSE, 0),
    Frame("null", "", {}, 0, 0, FALSE, 0),
    Frame("scalar", "", {}, 0, 0, FALSE, 0),
    Frame("object", "chat", {}, 0, 0, FALSE, 0),
    Frame("object", "input", {}, 0, 0, FALSE, 0) }

Frames == WellFormedInputs \cup MalformedFrames

\* ------------------------------------------------------------ host: actions
HostInit ==
  /\ physics = "loading"
  /\ loopsStarted = FALSE
  /\ awaiting = <<>>
  /\ hostWs = [w \in WsIds |-> "none"]
  /\ registered = {}
  /\ clients = <<>>
  /\ bodies = {}
  /\ tick = 0
  /\ hostNow = HostEpoch
  /\ crashed = FALSE
  /\ welcome = [w \in WsIds |-> [sent |-> FALSE, players |-> {}]]
  /\ joinInfo = [w \in WsIds |-> [others |-> {}, openOthers |-> {}]]
  /\ sentJoined = [r \in WsIds |-> [id \in WsIds |-> 0]]
  /\ sentLeft = [r \in WsIds |-> [id \in WsIds |-> 0]]
  /\ openAtSweep = [id \in WsIds |-> {}]
  /\ removeCalls = [id \in WsIds |-> 0]
  /\ entryRemovals = [id \in WsIds |-> 0]
  /\ bodyRemovals = [id \in WsIds |-> 0]
  /\ swept = {}
  /\ closeHandled = {}
  /\ live = {}
  /\ wire = [w \in WsIds |-> <<>>]
  /\ stamps = [last |-> -1, twice |-> FALSE, players |-> {}, props |-> {}]
  /\ propBody = <<>>
  /\ lastStep = [appliedNotOpen |-> {}, closedSeen |-> {}, fast |-> {}, clamped |-> {},
                 stepped |-> <<>>, inputs |-> [w \in WsIds |-> ZeroInput], several |-> {}]
  /\ lastSweep = [unpinged |-> {}, atLimit |-> FALSE]
  /\ heard = [w \in WsIds |-> [n |-> 0, last |-> Frame("none", "", {}, 0, 0, FALSE, 0)]]

\* The host variables a HostState record carries, taken from st.
SetHostState(st) ==
  /\ clients' = st.clients
  /\ bodies' = st.bodies
  /\ hostWs' = st.hostWs
  /\ sentJoined' = st.sentJoined
  /\ sentLeft' = st.sentLeft
  /\ removeCalls' = st.removeCalls
  /\ entryRemovals' = st.entryRemovals
  /\ bodyRemovals' = st.bodyRemovals
  /\ swept' = st.swept
  /\ openAtSweep' = st.openAtSweep
  /\ wire' = st.wire

\* Promise continuations run before the next event: while a connection that
\* awaited initPhysics can resume, nothing else on the host runs.
HostIdle == ~crashed /\ (awaiting = <<>> \/ physics = "loading")

\* A startLoops that creates its timers whether or not initPhysics succeeds.
PhysicsInitDoneLoopsAnyway(ok) ==
  /\ ~crashed
  /\ physics = "loading"
  /\ physics' = IF ok THEN "ready" ELSE "failed"
  /\ loopsStarted' = TRUE
  /\ propBody' = IF ok THEN createProps ELSE propBody
  /\ UNCHANGED <<awaiting, hostWs, registered, clients, bodies, tick, stamps, lastStep, lastSweep, heard, hostNow, crashed,
                 welcome, joinInfo, sentJoined, sentLeft, openAtSweep, removeCalls,
                 entryRemovals, bodyRemovals, swept, closeHandled, live, wire>>
  /\ UNCHANGED clientVars

\* initPhysics settles.  startLoops, which awaited it first, creates the timers.
PhysicsInitDone(ok) ==
  /\ ~crashed
  /\ physics = "loading"
  /\ physics' = IF ok THEN "ready" ELSE "failed"
  /\ loopsStarted' = ok
  /\ propBody' = IF ok THEN createProps ELSE propBody
  /\ UNCHANGED <<awaiting, hostWs, registered, clients, bodies, tick, stamps, lastStep, lastSweep, heard, hostNow, crashed,
                 welcome, joinInfo, sentJoined, sentLeft, openAtSweep, removeCalls,
                 entryRemovals, bodyRemovals, swept, closeHandled, live, wire>>
  /\ UNCHANGED clientVars

\* handleConnection(ws) from `const id = randomUUID()` on.
handleConnection(st, w) ==
  LET spawned == spawnPlayer(st, w, hostNow)
      bound == [spawned EXCEPT !.clients[w].ws = w, !.clients[w].lastSeen = hostNow]
      existingPlayers == {pid \in DOMAIN bound.clients \ {w} : HasSnapshot(bound, pid)}
      welcomed == SendTo(bound, w, WelcomeMsg(w, existingPlayers, hostNow))
      joined == broadcast(welcomed, [type |-> "player-joined", id |-> w], w)
  IN /\ SetHostState(joined)
     /\ welcome' = [welcome EXCEPT ![w] = [sent |-> IsOpen(bound, w),
                                           players |-> existingPlayers]]
     /\ joinInfo' = [joinInfo EXCEPT ![w] =
                       [others |-> live, openOthers |-> {r \in live : hostWs[r] = "open"}]]
     /\ registered' = registered \cup {w}
     /\ live' = live \cup {w}

\* handleConnection(ws).catch(...): initPhysics rejected, the socket is closed.
rejectConnection(w) ==
  /\ hostWs' = [hostWs EXCEPT ![w] = IF @ = "open" THEN "closing" ELSE @]
  /\ UNCHANGED <<registered, clients, bodies, welcome, joinInfo, sentJoined, sentLeft,
                 openAtSweep, removeCalls, entryRemovals, bodyRemovals, swept, live, wire>>

\* wss 'connection'.  With physics settled the handler runs through at once;
\* while it loads, the handler is parked at `await initPhysics()`.
ConnectionArrivesBody(w) ==
  /\ HostIdle
  /\ hostWs[w] = "none"
  /\ \A v \in 1..(w - 1) : hostWs[v] # "none"
  /\ IF physics = "loading"
       THEN /\ hostWs' = [hostWs EXCEPT ![w] = "open"]
            /\ awaiting' = Append(awaiting, w)
            /\ UNCHANGED <<registered, clients, bodies, welcome, joinInfo, sentJoined,
                           sentLeft, openAtSweep, removeCalls, entryRemovals,
                           bodyRemovals, swept, live, wire>>
       ELSE /\ UNCHANGED awaiting
            /\ IF physics = "ready"
                 THEN handleConnection([HostState EXCEPT !.hostWs[w] = "open"], w)
                 ELSE /\ hostWs' = [hostWs EXCEPT ![w] = "closing"]
                      /\ UNCHANGED <<registered, clients, bodies, welcome, joinInfo,
                                     sentJoined, sentLeft, openAtSweep, removeCalls,
                                     entryRemovals, bodyRemovals, swept, live, wire>>
  /\ UNCHANGED <<physics, loopsStarted, tick, stamps, simVars, hostNow, crashed, closeHandled>>
  /\ UNCHANGED clientVars

\* A parked handleConnection resumes, oldest first.
ResumeConnection ==
  /\ ~crashed
  /\ awaiting # <<>>
  /\ physics # "loading"
  /\ awaiting' = Tail(awaiting)
  /\ IF physics = "ready"
       THEN handleConnection(HostState, Head(awaiting))
       ELSE rejectConnection(Head(awaiting))
  /\ UNCHANGED <<physics, loopsStarted, tick, stamps, simVars, hostNow, crashed, closeHandled>>
  /\ UNCHANGED clientVars

\* A message listener that drops an input whose seq is not above lastSeq.
onMessageNewerOnly(st, id, f, t) ==
  IF f.kind # "object" \/ f.type # "input" \/ id \notin DOMAIN st.clients THEN st
  ELSE IF "seq" \in f.has /\ f.seq <= st.clients[id].lastSeq
    THEN [st EXCEPT !.clients[id].lastSeen = t]
  ELSE [st EXCEPT
          !.clients[id].lastInput =
             [steer |-> IF "steer" \in f.has THEN f.steer ELSE 0,
              throttle |-> IF "throttle" \in f.has THEN f.throttle ELSE 0,
              brake |-> f.brake],
          !.clients[id].lastSeq = IF "seq" \in f.has THEN f.seq ELSE @,
          !.clients[id].lastSeen = t]

\* A message listener that gives the input to every session.
onMessageForAll(st, id, f, t) ==
  IF f.kind # "object" \/ f.type # "input" \/ id \notin DOMAIN st.clients THEN st
  ELSE [st EXCEPT
          !.clients = [k \in DOMAIN @ |->
                         [@[k] EXCEPT !.lastInput =
                                         [steer |-> IF "steer" \in f.has THEN f.steer ELSE 0,
                                          throttle |-> IF "throttle" \in f.has THEN f.throttle
                                                       ELSE 0,
                                          brake |-> f.brake],
                                      !.lastSeq = IF "seq" \in f.has THEN f.seq ELSE @,
                                      !.lastSeen = t]]]

\* ws.on('message'): lines 455-475.
onMessage(st, id, f, t) ==
  IF f.kind # "object" \/ f.type # "input" \/ id \notin DOMAIN st.clients THEN st
  ELSE [st EXCEPT
          !.clients[id].lastInput =
             [steer |-> IF "steer" \in f.has THEN f.steer ELSE 0,
              throttle |-> IF "throttle" \in f.has THEN f.throttle ELSE 0,
              brake |-> f.brake],
          !.clients[id].lastSeq = IF "seq" \in f.has THEN f.seq ELSE @,
          !.clients[id].lastSeen = t]

\* JSON.parse gives null and `data.type` throws a TypeError outside the try
\* block: the exception leaves the listener and ends the process.
Throws(f) == f.kind = "null"

RecvFrameBody(w, f) ==
  /\ HostIdle
  /\ hostWs[w] = "open"
  /\ w \in registered
  /\ crashed' = Throws(f)
  /\ SetHostState(IF Throws(f) THEN HostState ELSE onMessage(HostState, w, f, hostNow))
  /\ UNCHANGED <<physics, loopsStarted, awaiting, registered, tick, stamps, propBody, lastStep,
                 lastSweep, hostNow, welcome, joinInfo, closeHandled, live>>
  /\ UNCHANGED clientVars

RecvFrame(w, f) == RecvFrameBody(w, f) /\ UNCHANGED heard

\* The same, with an input message noted for the physics step to come.
RecvFrameNoted(w, f) ==
  /\ RecvFrameBody(w, f)
  /\ heard' = IF f.kind = "object" /\ f.type = "input" /\ w \in DOMAIN clients
                THEN [heard EXCEPT ![w] = [n |-> Min(@.n + 1, 2), last |-> f]]
                ELSE heard

\* The peer starts closing (a close frame arrives): readyState leaves OPEN, the
\* 'close' event follows later.
PeerClosing(w) ==
  /\ ~crashed
  /\ hostWs[w] = "open"
  /\ hostWs' = [hostWs EXCEPT ![w] = "closing"]
  /\ UNCHANGED <<physics, loopsStarted, awaiting, registered, clients, bodies, tick, stamps, simVars,
                 hostNow, crashed, welcome, joinInfo, sentJoined, sentLeft, openAtSweep,
                 removeCalls, entryRemovals, bodyRemovals, swept, closeHandled, live, wire>>
  /\ UNCHANGED clientVars

\* ws.on('close'): lines 477-481.
onClose(st, id) == broadcast(removePlayer(st, id), [type |-> "player-left", id |-> id], id)

\* The socket's 'close' event: after the peer closed, after the connection
\* dropped, or after terminate() / close() on the host.  The listener exists
\* only once handleConnection has attached it.
CloseEvent(w) ==
  /\ HostIdle
  /\ hostWs[w] \in {"open", "closing"}
  /\ LET closed == [HostState EXCEPT !.hostWs[w] = "closed"]
     IN IF w \in registered
          THEN /\ SetHostState(onClose(closed, w))
               /\ closeHandled' = closeHandled \cup {w}
               /\ live' = live \ {w}
          ELSE /\ SetHostState(closed)
               /\ UNCHANGED <<closeHandled, live>>
  /\ UNCHANGED <<physics, loopsStarted, awaiting, registered, tick, stamps, simVars, hostNow, crashed,
                 welcome, joinInfo>>
  /\ UNCHANGED clientVars

\* What world.step() may make of a prop's body: moved inside the play area,
\* onto its edge, or beyond it on each side.  Positions in 1/100 of a unit.
StepOutcomes ==
  {Body(pos, 90, <<100, 0, 0>>, <<0, 100, 0>>) :
     pos \in {<<500, 100, 500>>, <<BOUND_XZ, 100, 0>>, <<0, BOUND_Y, 0>>,
              <<BOUND_XZ + 1, 100, 0>>, <<0 - BOUND_XZ - 1, 100, 0>>,
              <<0, BOUND_Y - 1, 0>>, <<0, 100, BOUND_XZ + 1>>,
              <<0, 100, 0 - BOUND_XZ - 1>>}}

\* world.step() on the props: fixed bodies stay, the dynamic prop `moved`
\* (0: none) comes out as `body`.
worldStep(pb, moved, body) ==
  [i \in DOMAIN pb |-> IF i = moved /\ PROPS[i].dynamic THEN body ELSE pb[i]]

\* A timer body that checks the props before the world steps.
checkThenStep(pb, moved, body) ==
  LET checked == [i \in DOMAIN pb |-> resetPropIfOutOfBounds(PROPS[i], pb[i])]
  IN [stepped |-> worldStep(checked, moved, body), props |-> worldStep(checked, moved, body)]

\* world.step() and then `for (const prop of props) resetPropIfOutOfBounds(prop)`:
\* the props as the step left them and as the check leaves them.
stepThenCheck(pb, moved, body) ==
  LET stepped == worldStep(pb, moved, body)
  IN [stepped |-> stepped,
      props |-> [i \in DOMAIN stepped |-> resetPropIfOutOfBounds(PROPS[i], stepped[i])]]

\* The physics timer: applyInputs, world.step(), tick += 1, the prop check.
PhysicsTimer(moved, body, speed) ==
  /\ HostIdle
  /\ loopsStarted
  /\ tick < MaxTick
  /\ moved # 0 => PROPS[moved].dynamic
  /\ tick' = tick + 1
  /\ LET stepped == stepThenCheck(propBody, moved, body).stepped
     IN /\ propBody' = stepThenCheck(propBody, moved, body).props
        /\ lastStep' = [appliedNotOpen |->
                          {id \in applyInputs(HostState) :
                             ~IsOpen(HostState, clients[id].ws)},
                        closedSeen |->
                          {w \in WsIds : hostWs[w] = "closed" /\ BodyInWorld(HostState, w)},
                        fast |-> {id \in applyInputs(HostState) :
                                    speed > MAX_SPEED + SPEED_MARGIN},
                        clamped |-> {id \in applyInputs(HostState) :
                                       "speedClamp" \in hostImpulses(clients[id].lastInput,
                                                                     speed)},
                        stepped |-> stepped,
                        inputs |-> [w \in WsIds |-> IF w \in applyInputs(HostState)
                                                        THEN clients[w].lastInput
                                                        ELSE lastStep.inputs[w]],
                        several |-> {id \in applyInputs(HostState) : heard[id].n > 1}]
  /\ heard' = [w \in WsIds |-> [n |-> 0, last |-> Frame("none", "", {}, 0, 0, FALSE, 0)]]
  /\ UNCHANGED <<physics, loopsStarted, awaiting, hostWs, registered, clients, bodies,
                 stamps, lastSweep, hostNow, crashed, welcome, joinInfo, sentJoined, sentLeft,
                 openAtSweep, removeCalls, entryRemovals, bodyRemovals, swept, closeHandled,
                 live, wire>>
  /\ UNCHANGED clientVars

\* The snapshot timer: lines 512-516.
SnapshotTimer ==
  /\ HostIdle
  /\ loopsStarted
  /\ \A w \in WsIds : Len(wire[w]) < MaxWire
  /\ SetHostState(IF DOMAIN clients = {} THEN HostState
                  ELSE broadcast(HostState, buildSnapshot(HostState, tick, hostNow), 0))
  /\ stamps' = IF DOMAIN clients = {} THEN stamps
               ELSE [last |-> tick, twice |-> stamps.twice \/ stamps.last = tick,
                     players |-> buildSnapshot(HostState, tick, hostNow).players,
                     props |-> buildSnapshot(HostState, tick, hostNow).props]
  /\ UNCHANGED simVars
  /\ UNCHANGED <<physics, loopsStarted, awaiting, registered, tick, hostNow, crashed,
                 welcome, joinInfo, closeHandled, live>>
  /\ UNCHANGED clientVars

\* A sweep that closes a session at two heartbeat intervals of silence, not after.
RECURSIVE sweepFromAtLimit(_, _, _)
sweepFromAtLimit(st, i, t) ==
  IF i > MaxConn THEN st
  ELSE IF i \notin DOMAIN st.clients \/ ~IsOpen(st, st.clients[i].ws)
    THEN sweepFromAtLimit(st, i + 1, t)
  ELSE IF t - st.clients[i].lastSeen >= HEARTBEAT_MS * 2
    THEN LET terminated == [st EXCEPT !.hostWs[st.clients[i].ws] = "closing"]
             removed == removePlayer(terminated, i)
             noted == [removed EXCEPT
                         !.swept = @ \cup {i},
                         !.openAtSweep[i] = {r \in DOMAIN removed.clients :
                                               IsOpen(removed, removed.clients[r].ws)}]
         IN sweepFromAtLimit(broadcast(noted, [type |-> "player-left", id |-> i], i), i + 1, t)
    ELSE sweepFromAtLimit([st EXCEPT !.pinged = @ \cup {i}], i + 1, t)

\* The heartbeat timer's loop body for entries i, i+1, ...: lines 521-531.
RECURSIVE sweepFrom(_, _, _)
sweepFrom(st, i, t) ==
  IF i > MaxConn THEN st
  ELSE IF i \notin DOMAIN st.clients \/ ~IsOpen(st, st.clients[i].ws)
    THEN sweepFrom(st, i + 1, t)
  ELSE IF t - st.clients[i].lastSeen > HEARTBEAT_MS * 2
    THEN LET terminated == [st EXCEPT !.hostWs[st.clients[i].ws] = "closing"]
             removed == removePlayer(terminated, i)
             noted == [removed EXCEPT
                         !.swept = @ \cup {i},
                         !.openAtSweep[i] = {r \in DOMAIN removed.clients :
                                               IsOpen(removed, removed.clients[r].ws)}]
         IN sweepFrom(broadcast(noted, [type |-> "player-left", id |-> i], i), i + 1, t)
    ELSE sweepFrom([st EXCEPT !.pinged = @ \cup {i}], i + 1, t)

HeartbeatSweep ==
  /\ HostIdle
  /\ loopsStarted
  /\ SetHostState(sweepFrom(HostState, 1, hostNow))
  /\ live' = live \ sweepFrom(HostState, 1, hostNow).swept
  /\ lastSweep' = [unpinged |-> {id \in DOMAIN clients :
                                  /\ IsOpen(HostState, clients[id].ws)
                                  /\ hostNow - clients[id].lastSeen <= 2 * HEARTBEAT_MS}
                                \ sweepFrom(HostState, 1, hostNow).pinged,
                   atLimit |-> \E id \in sweepFrom(HostState, 1, hostNow).pinged :
                                 hostNow - clients[id].lastSeen = 2 * HEARTBEAT_MS]
  /\ UNCHANGED <<physics, loopsStarted, awaiting, registered, tick, stamps, propBody, lastStep,
                 heard, hostNow, crashed,
                 welcome, joinInfo, closeHandled>>
  /\ UNCHANGED clientVars

HostClockAdvance ==
  /\ ~crashed
  /\ hostNow + HostClockStep \in HostTimes
  /\ hostNow' = hostNow + HostClockStep
  /\ UNCHANGED <<physics, loopsStarted, awaiting, hostWs, registered, clients, bodies,
                 tick, stamps, simVars, crashed, welcome, joinInfo, sentJoined, sentLeft, openAtSweep,
                 removeCalls, entryRemovals, bodyRemovals, swept, closeHandled, live, wire>>
  /\ UNCHANGED clientVars

\* ------------------------------------------------------------ client: state
\* Times are in ms; the accumulator and dt are in units of 1/3000 s, so that
\* 1/60 s, 0.05 s and 0.25 s are whole numbers.
FIXED_DT == 50
MAX_ACCUM == 750
MAX_FRAME_DT == 150
SNAPSHOT_DELAY_MS == 120
SNAPSHOT_CAP == 90
INPUT_INTERVAL_MS == 33
OFFLINE_PROP_COUNT == 20

ClientState ==
  [phase |-> phase, mode |-> mode, statusOnline |-> statusOnline,
   offlineWorldReady |-> offlineWorldReady, clientProps |-> clientProps,
   serverProps |-> serverProps, propMeshes |-> propMeshes, repeats |-> repeats,
   interp |-> interp,
   remotePlayers |-> remotePlayers, staleJobs |-> staleJobs,
   orphanCars |-> orphanCars, carJobs |-> carJobs, cliSock |-> cliSock, socket |-> socket,
   reconnectTimer |-> reconnectTimer, pendingTimers |-> pendingTimers,
   timerProbes |-> timerProbes, snapshotBuffer |-> snapshotBuffer,
   serverTimeOffset |-> serverTimeOffset, netId |-> netId, seq |-> seq,
   lastSend |-> lastSend, now |-> now, accumulator |-> accumulator,
   stepCount |-> stepCount, totalAccum |-> totalAccum, frameSteps |-> frameSteps,
   stepDts |-> stepDts, lastPushed |-> lastPushed,
   playerGroundContacts |-> playerGroundContacts, playerGrounded |-> playerGrounded,
   contactEvents |-> contactEvents, frameCalls |-> frameCalls, render |-> render]

SetClientState(c) ==
  /\ phase' = c.phase
  /\ mode' = c.mode
  /\ statusOnline' = c.statusOnline
  /\ offlineWorldReady' = c.offlineWorldReady
  /\ clientProps' = c.clientProps
  /\ serverProps' = c.serverProps
  /\ propMeshes' = c.propMeshes
  /\ repeats' = c.repeats
  /\ interp' = c.interp
  /\ remotePlayers' = c.remotePlayers
  /\ staleJobs' = c.staleJobs
  /\ orphanCars' = c.orphanCars
  /\ carJobs' = c.carJobs
  /\ cliSock' = c.cliSock
  /\ socket' = c.socket
  /\ reconnectTimer' = c.reconnectTimer
  /\ pendingTimers' = c.pendingTimers
  /\ timerProbes' = c.timerProbes
  /\ snapshotBuffer' = c.snapshotBuffer
  /\ serverTimeOffset' = c.serverTimeOffset
  /\ netId' = c.netId
  /\ seq' = c.seq
  /\ lastSend' = c.lastSend
  /\ now' = c.now
  /\ accumulator' = c.accumulator
  /\ stepCount' = c.stepCount
  /\ totalAccum' = c.totalAccum
  /\ frameSteps' = c.frameSteps
  /\ stepDts' = c.stepDts
  /\ lastPushed' = c.lastPushed
  /\ playerGroundContacts' = c.playerGroundContacts
  /\ playerGrounded' = c.playerGrounded
  /\ contactEvents' = c.contactEvents
  /\ render' = c.render
  /\ frameCalls' = c.frameCalls

\* An entity state of a snapshot: id, position, linear and angular velocity.
\* Numbers are floating-point values in units of 1/ONE.  (The rotation, which
\* goes through Quaternion.slerp, is left out.)
EntityState(id, p, lv, av) == [present |-> TRUE, id |-> id, p |-> p, lv |-> lv, av |-> av]
NoState == [present |-> FALSE]

ClientInitButInterp ==
  /\ phase = "loadingCar"
  /\ mode = "offline"
  /\ statusOnline = FALSE
  /\ offlineWorldReady = FALSE
  /\ clientProps = 0
  /\ serverProps = {}
  /\ propMeshes = [id \in HostPropIds |-> 0]
  /\ repeats = {}
  /\ remotePlayers = [id \in WsIds |-> "none"]
  /\ staleJobs = {}
  /\ orphanCars = {}
  /\ carJobs = [id \in WsIds |-> [made |-> 0, askedBy |-> {}]]
  /\ cliSock = [w \in WsIds |-> "unused"]
  /\ socket = 0
  /\ reconnectTimer = FALSE
  /\ pendingTimers = 0
  /\ timerProbes = 0
  /\ snapshotBuffer = <<>>
  /\ serverTimeOffset = 0
  /\ netId = 0
  /\ seq = 0
  /\ lastSend = 0
  /\ now = 0
  /\ accumulator = 0
  /\ stepCount = 0
  /\ totalAccum = 0
  /\ frameSteps = 0
  /\ stepDts = {}
  /\ lastPushed = 0
  /\ playerGroundContacts = 0
  /\ playerGrounded = FALSE
  /\ contactEvents = <<>>
  /\ frameCalls = {}
  /\ render = [on |-> FALSE, renderTime |-> 0, pruned |-> 0, prevTime |-> 0,
               nextTime |-> 0, num |-> 0, den |-> 1]

ClientInit ==
  /\ ClientInitButInterp
  /\ interp = [a |-> NoState, b |-> NoState, alpha |-> 0, out |-> NoState, done |-> FALSE]

\* -------------------------------------------------------- client: functions
setNetStatus(c, online) == [c EXCEPT !.statusOnline = online]

\* removeRemotePlayer(id): a placeholder still loading leaves the Map while
\* its makeCar goes on.
removeRemotePlayer(c, id) ==
  IF c.remotePlayers[id] = "none" THEN c
  ELSE [c EXCEPT !.remotePlayers[id] = "none",
                 !.staleJobs = IF c.remotePlayers[id] = "loading" THEN @ \cup {id} ELSE @,
                 !.carJobs[id] = [made |-> 0, askedBy |-> {}]]

RECURSIVE clearRemotePlayersFrom(_, _)
clearRemotePlayersFrom(c, i) ==
  IF i > MaxConn THEN c ELSE clearRemotePlayersFrom(removeRemotePlayer(c, i), i + 1)

clearRemotePlayers(c) == clearRemotePlayersFrom(c, 1)

\* A spawnRemotePlayer that starts a creation whether or not the Map holds the id.
spawnRemotePlayerAgain(c, id, by) ==
  [c EXCEPT !.remotePlayers[id] = "loading",
            !.carJobs[id] = [made |-> @.made + 1, askedBy |-> @.askedBy \cup {by}]]

\* spawnRemotePlayer(id, snapshot) up to `await makeCar(...)`, for the caller
\* `by`.  (The callers that test remotePlayers.has(id) first skip the call
\* exactly when it would return at once.)
spawnRemotePlayer(c, id, by) ==
  IF c.remotePlayers[id] # "none" THEN [c EXCEPT !.carJobs[id].askedBy = @ \cup {by}]
  ELSE [c EXCEPT !.remotePlayers[id] = "loading",
                 !.carJobs[id] = [made |-> 1, askedBy |-> {by}]]

RECURSIVE spawnAllFrom(_, _, _, _)
spawnAllFrom(c, ids, i, by) ==
  IF i > MaxConn THEN c
  ELSE spawnAllFrom(IF i \in ids THEN spawnRemotePlayer(c, i, by) ELSE c, ids, i + 1, by)

spawnAll(c, ids, by) == spawnAllFrom(c, ids, 1, by)

\* spawnProps(count): count props pushed onto clientProps.
spawnProps(c, count) == [c EXCEPT !.clientProps = @ + count]

clearClientProps(c) == [c EXCEPT !.clientProps = 0]

\* clearServerProps(): every mesh held by the Map leaves the scene.
clearServerProps(c) ==
  [c EXCEPT !.propMeshes = [id \in DOMAIN @ |-> IF id \in c.serverProps THEN @[id] - 1
                                                                         ELSE @[id]],
            !.serverProps = {}]

\* A spawnServerProps that adds the listed meshes without clearing first.
spawnServerPropsKeepOld(c, list) ==
  [c EXCEPT !.propMeshes = [id \in DOMAIN @ |-> IF id \in list THEN @[id] + 1 ELSE @[id]],
            !.serverProps = @ \cup list]

\* spawnServerProps(list): one mesh added to the scene and set in the Map
\* for each listed prop, after clearServerProps().
spawnServerProps(c, list) ==
  LET cleared == clearServerProps(c)
  IN [cleared EXCEPT
        !.propMeshes = [id \in DOMAIN @ |-> IF id \in list THEN @[id] + 1 ELSE @[id]],
        !.serverProps = list]

\* An ensureOfflineWorld that leaves the snapshot buffer as it is.
ensureOfflineWorldKeepBuffer(c) ==
  LET cleared == clearRemotePlayers(clearServerProps(
                   [setNetStatus(c, FALSE) EXCEPT !.mode = "offline"]))
  IN IF cleared.offlineWorldReady THEN cleared
     ELSE [spawnProps(clearClientProps(cleared), OFFLINE_PROP_COUNT) EXCEPT
             !.offlineWorldReady = TRUE]

ensureOfflineWorld(c) ==
  LET noted == [c EXCEPT !.repeats = IF c.mode = "offline" /\ c.offlineWorldReady
                                       THEN @ \cup {"ensureOfflineWorld"} ELSE @]
      cleared == clearRemotePlayers(clearServerProps(
                   [setNetStatus(noted, FALSE) EXCEPT !.mode = "offline",
                                                      !.snapshotBuffer = <<>>,
                                                      !.lastPushed = 0]))
  IN IF cleared.offlineWorldReady THEN cleared
     ELSE [spawnProps(clearClientProps(cleared), OFFLINE_PROP_COUNT) EXCEPT
             !.offlineWorldReady = TRUE]

snapshotClientTime(c, snap) == snap.serverTime + c.serverTimeOffset

cleanSocket(c) ==
  IF c.socket = 0 THEN c
  ELSE [c EXCEPT !.cliSock[c.socket] = IF @ \in {"connecting", "open"} THEN "closing" ELSE @,
                 !.socket = 0]

\* A scheduleReconnect that sets a timeout whether or not one is pending.
scheduleReconnectUnguarded(c) ==
  [c EXCEPT !.reconnectTimer = TRUE, !.pendingTimers = @ + 1]

scheduleReconnect(c) ==
  IF c.reconnectTimer THEN c
  ELSE [c EXCEPT !.reconnectTimer = TRUE, !.pendingTimers = @ + 1]

sendInput(c) ==
  IF c.socket = 0 \/ c.cliSock[c.socket] # "open" THEN c
  ELSE IF c.now - c.lastSend < INPUT_INTERVAL_MS THEN c
  ELSE [c EXCEPT !.lastSend = c.now, !.seq = @ + 1]

\* A buffer left in arrival order.
KeepArrivalOrder(buf) == buf

\* Array.prototype.sort with (a.serverTime || 0) - (b.serverTime || 0): stable.
InsertByServerTime(sorted, x) ==
  LET k == Cardinality({i \in 1..Len(sorted) : sorted[i].serverTime <= x.serverTime})
  IN SubSeq(sorted, 1, k) \o <<x>> \o SubSeq(sorted, k + 1, Len(sorted))

\* The last entry is put in its place among the others sorted; others that
\* are in order already are as a stable sort leaves them.
RECURSIVE SortByServerTime(_)
SortByServerTime(buf) ==
  IF buf = <<>> THEN <<>>
  ELSE LET front == SubSeq(buf, 1, Len(buf) - 1)
           inOrder == \A i \in 1..(Len(front) - 1) :
                        front[i].serverTime <= front[i + 1].serverTime
       IN InsertByServerTime(IF inOrder THEN front ELSE SortByServerTime(front),
                             buf[Len(buf)])

\* A clamp that lets its argument through.
clampNone(x, lo, hi) == x

\* THREE.MathUtils.clamp
clamp(x, lo, hi) == Max(lo, Min(hi, x))

\* A pruning loop that goes on down to one entry.
RECURSIVE PruneBufferToOne(_, _, _)
PruneBufferToOne(buf, offset, renderTime) ==
  IF Len(buf) > 1 /\ buf[2].serverTime + offset <= renderTime
    THEN PruneBufferToOne(Tail(buf), offset, renderTime)
    ELSE buf

\* The pruning loop of applySnapshotInterpolation.
RECURSIVE PruneBuffer(_, _, _)
PruneBuffer(buf, offset, renderTime) ==
  IF Len(buf) > 2 /\ buf[2].serverTime + offset <= renderTime
    THEN PruneBuffer(Tail(buf), offset, renderTime)
    ELSE buf

applySnapshotInterpolation(c) ==
  IF c.snapshotBuffer = <<>> THEN c
  ELSE LET renderTime == c.now - SNAPSHOT_DELAY_MS
           buf == PruneBuffer(SortByServerTime(c.snapshotBuffer), c.serverTimeOffset, renderTime)
           prev == buf[1]
           after == {i \in 1..Len(buf) : snapshotClientTime(c, buf[i]) >= renderTime}
           next == IF after = {} THEN buf[Len(buf)]
                   ELSE buf[CHOOSE i \in after : \A j \in after : i <= j]
           prevTime == snapshotClientTime(c, prev)
           nextTime == snapshotClientTime(c, next)
           span == Max(1, nextTime - prevTime)
           playerIds == (prev.players \cup next.players) \ {c.netId}
       IN spawnAll([c EXCEPT !.snapshotBuffer = buf,
                             !.render = [on |-> TRUE, renderTime |-> renderTime,
                                         pruned |-> Len(c.snapshotBuffer) - Len(buf),
                                         prevTime |-> prevTime, nextTime |-> nextTime,
                                         num |-> clamp(renderTime - prevTime, 0, span),
                                         den |-> span]],
                   playerIds, "interpolation")

\* An eviction that drops the newest entry.
capBufferDropNewest(sorted) ==
  IF Len(sorted) > SNAPSHOT_CAP THEN SubSeq(sorted, 1, Len(sorted) - 1) ELSE sorted

\* if (NETWORK.snapshotBuffer.length > 90) NETWORK.snapshotBuffer.shift()
capBuffer(sorted) == IF Len(sorted) > SNAPSHOT_CAP THEN Tail(sorted) ELSE sorted

handleMessage(c, msg) ==
  IF msg.type = "welcome" THEN
    LET noted == [c EXCEPT !.repeats = IF c.mode = "online" /\ c.serverProps # {}
                                         THEN @ \cup {"welcome"} ELSE @]
        adopted == clearRemotePlayers(
                     [setNetStatus(clearClientProps(noted), TRUE) EXCEPT
                        !.netId = msg.id,
                        !.serverTimeOffset = c.now - msg.serverTime,
                        !.mode = "online",
                        !.offlineWorldReady = FALSE,
                        !.snapshotBuffer = <<>>,
                        !.lastPushed = 0])
    IN spawnAll(spawnServerProps(adopted, msg.props), msg.players, "welcome")
  ELSE IF msg.type = "snapshot" THEN
    LET snap == [tick |-> msg.tick, serverTime |-> msg.serverTime, players |-> msg.players]
        sorted == SortByServerTime(Append(c.snapshotBuffer, snap))
        kept == capBuffer(sorted)
    IN spawnAll([c EXCEPT !.snapshotBuffer = kept, !.lastPushed = msg.serverTime],
                msg.players \ {c.netId}, "snapshot")
  ELSE IF msg.type = "player-left" THEN removeRemotePlayer(c, msg.id)
  ELSE IF msg.type = "player-joined" /\ msg.id # c.netId
    THEN spawnRemotePlayer(c, msg.id, "player-joined")
  ELSE c

\* ---- floating point, scaled down: FLOAT_BITS significant bits, round to
\* nearest, ties to even.  A number is an integer count of 1/ONE.
FLOAT_BITS == 4
ONE == 256

RECURSIVE Pow2(_)
Pow2(k) == IF k = 0 THEN 1 ELSE 2 * Pow2(k - 1)

\* The largest power of two e with e * d <= a, for a >= d.
RECURSIVE Pow2Floor(_, _, _)
Pow2Floor(a, d, e) == IF 2 * e * d <= a THEN Pow2Floor(a, d, 2 * e) ELSE e

\* The spacing of the representable numbers around n / d.
Ulp(n, d) ==
  IF Abs(n) < d THEN 1
  ELSE LET q == Pow2Floor(Abs(n), d, 1) \div Pow2(FLOAT_BITS - 1)
       IN IF q < 1 THEN 1 ELSE q

\* n / d rounded to a representable number.
RoundFloat(n, d) ==
  LET q == Ulp(n, d)
      k == Abs(n) \div (d * q)
      r == Abs(n) - k * d * q
      up == 2 * r > d * q \/ (2 * r = d * q /\ k % 2 = 1)
      m == (IF up THEN k + 1 ELSE k) * q
  IN IF n < 0 THEN 0 - m ELSE m

fadd(x, y) == RoundFloat(x + y, 1)
fmul(x, y) == RoundFloat(x * y, ONE)

\* An interpolation x + t * (y - x).
lerpFromStart(x, y, t) == fadd(x, fmul(t, fadd(y, 0 - x)))

\* THREE.MathUtils.lerp(x, y, t): (1 - t) * x + t * y.
lerp(x, y, t) == fadd(fmul(fadd(ONE, 0 - t), x), fmul(t, y))

\* `v || 0` on a number.
OrZero(v) == IF v = 0 THEN 0 ELSE v

lerpVec(va, vb, alpha) == [i \in 1..3 |-> lerp(OrZero(va[i]), OrZero(vb[i]), alpha)]

\* An interpolateState that takes a missing state for one at rest at the origin.
interpolateStateZeroFill(a, b, alpha) ==
  IF ~a.present /\ ~b.present THEN a
  ELSE LET zero == EntityState(0, <<0, 0, 0>>, <<0, 0, 0>>, <<0, 0, 0>>)
           sa == IF a.present THEN a ELSE zero
           sb == IF b.present THEN b ELSE zero
       IN EntityState(IF a.present THEN a.id ELSE b.id, lerpVec(sa.p, sb.p, alpha),
                      lerpVec(sa.lv, sb.lv, alpha), lerpVec(sa.av, sb.av, alpha))

\* interpolateState(a, b, alpha).
interpolateState(a, b, alpha) ==
  IF ~b.present THEN a
  ELSE IF ~a.present THEN b
  ELSE EntityState(a.id, lerpVec(a.p, b.p, alpha), lerpVec(a.lv, b.lv, alpha),
                   lerpVec(a.av, b.av, alpha))

\* ---- ground contacts
\* The colliders of the client's world by what they belong to; "player" is
\* playerPhysics.collider, set by the time the frame loop runs.
Colliders == {"player", "ground", "prop"}

\* A collision event as drainCollisionEvents hands it over: the two colliders,
\* begin or end, and whether both colliders still resolve to a rigid body.
ContactEvents ==
  {ev \in [h1 : Colliders, h2 : Colliders, started : BOOLEAN, bodies : BOOLEAN] :
     ev.h1 # ev.h2}

\* An updateGroundState in which the end of any contact ends them all.
updateGroundStateClearing(c, ev) ==
  IF ev.h1 = "player" \/ ev.h2 = "player"
    THEN LET n == IF ev.started THEN c.playerGroundContacts + 1 ELSE 0
         IN [c EXCEPT !.playerGroundContacts = n, !.playerGrounded = n > 0]
    ELSE c

updateGroundState(c, ev) ==
  IF ev.h1 = "player" \/ ev.h2 = "player"
    THEN LET n == IF ev.started THEN c.playerGroundContacts + 1
                  ELSE Max(0, c.playerGroundContacts - 1)
         IN [c EXCEPT !.playerGroundContacts = n, !.playerGrounded = n > 0]
    ELSE c

\* processCollisions(): each drained event, in order; one whose collider or
\* body is gone is dropped before updateGroundState.
RECURSIVE processCollisions(_, _)
processCollisions(c, evs) ==
  IF evs = <<>> THEN c
  ELSE processCollisions(IF Head(evs).bodies
                           THEN [updateGroundState(c, Head(evs)) EXCEPT
                                   !.contactEvents = Append(@, Head(evs))]
                           ELSE c,
                         Tail(evs))

\* A frame loop that adds the raw frame delta: no clamp, no cap.
accumulateUncapped(acc, elapsedMs) == acc + elapsedMs * 3

\* Lines 1904 and 1907: the frame delta, clamped, added under the cap.
accumulate(acc, elapsedMs) == Min(acc + Min(elapsedMs * 3, MAX_FRAME_DT), MAX_ACCUM)

\* A variable-timestep loop: one step with everything accumulated.
stepLoopVariable(acc, n, dts) ==
  IF acc >= FIXED_DT THEN [acc |-> 0, n |-> n + 1, dts |-> dts \cup {acc}]
  ELSE [acc |-> acc, n |-> n, dts |-> dts]

\* A loop that makes one step a frame at most.
stepLoopOnce(acc, n, dts) ==
  IF acc >= FIXED_DT THEN [acc |-> acc - FIXED_DT, n |-> n + 1, dts |-> dts \cup {FIXED_DT}]
  ELSE [acc |-> acc, n |-> n, dts |-> dts]

\* The while loop of tick(): the accumulator left, the stepPhysics calls made
\* and the dt each was made with.
RECURSIVE stepLoop(_, _, _)
stepLoop(acc, n, dts) ==
  IF acc >= FIXED_DT THEN stepLoop(acc - FIXED_DT, n + 1, dts \cup {FIXED_DT})
  ELSE [acc |-> acc, n |-> n, dts |-> dts]

\* A test that looks at the offline world only.
offlineSteppingIfReady(c) == c.offlineWorldReady

\* NETWORK.mode === "offline" && offlineWorldReady
offlineStepping(c) == c.mode = "offline" /\ c.offlineWorldReady

\* tick(now), d ms after the previous frame; evs: the collision events the
\* frame's world.step() calls queue, all told.
clientTick(c, d, evs) ==
  LET timed == [c EXCEPT !.now = c.now + d, !.contactEvents = <<>>, !.frameCalls = {}]
      stepped ==
        IF offlineStepping(timed)
          THEN LET acc == accumulate(timed.accumulator, d)
                   run == stepLoop(acc, 0, {})
                   moved == [timed EXCEPT !.accumulator = run.acc,
                                          !.stepCount = @ + run.n,
                                          !.totalAccum = @ + (acc - timed.accumulator),
                                          !.frameSteps = run.n,
                                          !.stepDts = @ \cup run.dts]
               IN IF run.n > 0
                    THEN processCollisions([moved EXCEPT !.frameCalls = @ \cup {"stepPhysics"}],
                                           evs)
                    ELSE moved
          ELSE [timed EXCEPT !.accumulator = 0, !.stepCount = 0, !.totalAccum = 0,
                             !.frameSteps = 0]
      rendered == IF stepped.mode = "online"
                    THEN applySnapshotInterpolation(
                           [stepped EXCEPT !.frameCalls = @ \cup {"applySnapshotInterpolation"}])
                    ELSE stepped
  IN IF rendered.mode = "online"
       THEN sendInput([rendered EXCEPT !.frameCalls = @ \cup {"sendInput"}])
       ELSE rendered

\* ----------------------------------------------------------- client: actions
hostVarsButWire == <<simVars, physics, loopsStarted, awaiting, hostWs, registered, clients, bodies,
                     tick, stamps, hostNow, crashed, welcome, joinInfo, sentJoined, sentLeft,
                     openAtSweep, removeCalls, entryRemovals, bodyRemovals, swept,
                     closeHandled, live>>

\* Frame deltas, ms: under one fixed step, over one, over the 50 ms clamp and
\* the 250 ms cap.
FrameDeltas == {10, 20, 300}
\* The frame deltas of the runs that are about the network, not the stepping.
RenderDeltas == {300}

\* The connection a new WebSocket(...) gets: the next one never used.
FreeConn(c) == {w \in WsIds : c.cliSock[w] = "unused" /\ \A v \in 1..(w - 1) : c.cliSock[v] # "unused"}

\* What the fetch of /health may come to: a 2xx response, any other response,
\* a network error, or the abort after 1800 ms.
ProbeOutcomes == {"ok", "notOk", "networkError", "aborted"}

\* checkServerAvailability: res.ok, or false from the catch block.
checkServerAvailability(outcome) == outcome = "ok"

\* An initNetwork that leaves the offline world alone and arms no timer when
\* the probe fails.
initNetworkResumeIdle(c, available) ==
  IF ~available THEN c
  ELSE [c EXCEPT !.cliSock[CHOOSE w \in FreeConn(c) : TRUE] = "connecting"]

\* initNetwork() from the probe's result on.
initNetworkResume(c, available) ==
  IF ~available THEN scheduleReconnect(ensureOfflineWorld(c))
  ELSE [c EXCEPT !.cliSock[CHOOSE w \in FreeConn(c) : TRUE] = "connecting"]

\* startGame(): setupPlayerCar resolves, initNetwork() runs to its await.
CarReady ==
  /\ phase = "loadingCar"
  /\ SetClientState([cleanSocket(ClientState) EXCEPT !.phase = "startupProbe",
                                                     !.playerGroundContacts = 0,
                                                     !.playerGrounded = FALSE])
  /\ UNCHANGED hostVars

\* The startup probe settles; startGame() runs on to requestAnimationFrame.
StartupProbeDone(available) ==
  /\ phase = "startupProbe"
  /\ available => FreeConn(ClientState) # {}
  /\ LET probed == initNetworkResume(ClientState, available)
         ensured == IF ~available /\ ~probed.offlineWorldReady
                      THEN ensureOfflineWorld(probed) ELSE probed
     IN SetClientState([ensured EXCEPT !.phase = "running"])
  /\ UNCHANGED hostVars

\* The reconnect timeout fires: lines 1321-1324, initNetwork() to its await.
ReconnectTimerFires ==
  /\ pendingTimers > 0
  /\ timerProbes < MaxProbes
  /\ SetClientState(cleanSocket([ClientState EXCEPT !.pendingTimers = @ - 1,
                                                    !.reconnectTimer = FALSE,
                                                    !.timerProbes = @ + 1]))
  /\ UNCHANGED hostVars

ReconnectProbeDone(available) ==
  /\ timerProbes > 0
  /\ available => FreeConn(ClientState) # {}
  /\ SetClientState(initNetworkResume([ClientState EXCEPT !.timerProbes = @ - 1], available))
  /\ UNCHANGED hostVars

\* An open listener that sets the mode and leaves the indicator alone.
onOpenModeOnly(c, w) ==
  sendInput([c EXCEPT !.socket = w, !.mode = "online", !.lastSend = 0])

\* ws 'open': lines 1404-1410.
onOpen(c, w) ==
  sendInput([setNetStatus(c, TRUE) EXCEPT !.socket = w, !.mode = "online", !.lastSend = 0])

SocketOpenBody(w) ==
  /\ cliSock[w] = "connecting"
  /\ SetClientState(onOpen([ClientState EXCEPT !.cliSock[w] = "open"], w))

\* A close listener that only re-arms the reconnect timer.
onSocketCloseTimerOnly(c) == scheduleReconnect([c EXCEPT !.socket = 0])

\* A close listener that falls back to the offline world and arms no timer.
onSocketCloseNoRetry(c) == ensureOfflineWorld([c EXCEPT !.socket = 0])

\* ws 'close': lines 1412-1416.
onSocketClose(c) == scheduleReconnect(ensureOfflineWorld([c EXCEPT !.socket = 0]))

\* The connection closes cleanly.
SocketClose(w) ==
  /\ cliSock[w] \in {"open", "closing"}
  /\ SetClientState(onSocketClose([ClientState EXCEPT !.cliSock[w] = "closed"]))
  /\ UNCHANGED hostVars

\* The connection fails: the error event, then the close event, in one task.
SocketFail(w) ==
  /\ cliSock[w] \in {"connecting", "open", "closing"}
  /\ SetClientState(onSocketClose(setNetStatus([ClientState EXCEPT !.cliSock[w] = "closed"], FALSE)))
  /\ UNCHANGED hostVars

\* ws 'message' on an open socket.  The host stops sending snapshots while the
\* buffer holds cap of them.
ClientRecvUpTo(w, msg, cap) ==
  /\ cliSock[w] = "open"
  /\ msg.type = "snapshot" => Len(snapshotBuffer) < cap
  /\ SetClientState(handleMessage(ClientState, msg))

ClientRecvBody(w, msg) == ClientRecvUpTo(w, msg, MaxBuf)

\* makeCar resolves for the placeholder the Map holds.
CarCreated(id) ==
  /\ remotePlayers[id] = "loading"
  /\ SetClientState([ClientState EXCEPT !.remotePlayers[id] = "ready"])
  /\ UNCHANGED hostVars

\* makeCar resolves for a placeholder that has left the Map: the car is added
\* to the scene all the same.  more: another such creation is still running.
StaleCarCreated(id, more) ==
  /\ id \in staleJobs
  /\ SetClientState([ClientState EXCEPT !.orphanCars = @ \cup {id},
                                        !.staleJobs = IF more THEN @ ELSE @ \ {id}])
  /\ UNCHANGED hostVars

\* A frame whose world.step() calls queue no collision event.
Tick(d) ==
  /\ phase = "running"
  /\ now + d <= MaxNow
  /\ SetClientState(clientTick(ClientState, d, <<>>))
  /\ UNCHANGED hostVars

\* A frame that steps the world, with the collision events the steps queue.
TickContacts(d, evs) ==
  /\ phase = "running"
  /\ now + d <= MaxNow
  /\ mode = "offline" /\ offlineWorldReady
  /\ stepLoop(accumulate(accumulator, d), 0, {}).n > 0
  /\ LET ticked == clientTick(ClientState, d, evs)
     IN /\ ticked.playerGroundContacts <= MaxContacts
        /\ SetClientState(ticked)
  /\ UNCHANGED hostVars

\* --------------------------------------------------- interpolateState alone
\* The numbers the two positions and alpha are drawn from.
Coordinates == {RoundFloat(64 * k, 1) : k \in (0 - 16)..16}
Alphas == {RoundFloat(v, 1) : v \in {0, 24, 64, 96, 128, 192, 232, ONE}}

InitInterp ==
  /\ HostInit
  /\ ClientInitButInterp
  /\ \E x0 \in Coordinates, x1 \in Coordinates, al \in Alphas :
        interp = [a |-> EntityState(1, <<x0, 160, 0 - 320>>, <<96, 0, 0>>, <<0, 48, 0>>),
                  b |-> EntityState(1, <<x1, 160, 448>>, <<0, 0, 96>>, <<0, 0, 0>>),
                  alpha |-> al, out |-> NoState, done |-> FALSE]

\* applySnapshotInterpolation's call of interpolateState for one entity.
Interpolate ==
  /\ ~interp.done
  /\ interp' = [interp EXCEPT !.out = interpolateState(interp.a, interp.b, interp.alpha),
                              !.done = TRUE]
  /\ UNCHANGED <<hostVars, phase, mode, statusOnline, offlineWorldReady, clientProps,
                 serverProps, propMeshes, repeats, remotePlayers, staleJobs, orphanCars,
                 carJobs, cliSock, socket, reconnectTimer, pendingTimers, timerProbes,
                 snapshotBuffer, serverTimeOffset, netId, seq, lastSend, now, accumulator,
                 stepCount, totalAccum, frameSteps, stepDts, lastPushed,
                 playerGroundContacts, playerGrounded, contactEvents, frameCalls, render>>

NextInterp == Interpolate

SpecInterp == InitInterp /\ [][NextInterp]_vars

\* The same for an entity that one of the two snapshots, or neither, holds.
InitInterpMissing ==
  /\ HostInit
  /\ ClientInitButInterp
  /\ \E x \in Coordinates, al \in Alphas, inPrev \in BOOLEAN, inNext \in BOOLEAN :
        /\ ~(inPrev /\ inNext)
        /\ LET known == EntityState(1, <<x, 160, 0 - 320>>, <<96, 0, 0>>, <<0, 48, 0>>)
           IN interp = [a |-> IF inPrev THEN known ELSE NoState,
                        b |-> IF inNext THEN known ELSE NoState,
                        alpha |-> al, out |-> NoState, done |-> FALSE]

SpecInterpMissing == InitInterpMissing /\ [][NextInterp]_vars

\* ----------------------------------------------------- the client by itself
\* What an arbitrary host may send, other players included.  The client never
\* reads a snapshot's tick.
ClientMsgs ==
  {WelcomeMsg(1, ps, 1000) : ps \in {{}, {2}}}
    \cup {[type |-> "snapshot", tick |-> 0, serverTime |-> t, players |-> WsIds] :
            t \in {1000, 1100, 1200}}
    \cup {[type |-> ty, id |-> id] : ty \in {"player-joined", "player-left"}, id \in WsIds}
    \cup {[type |-> ty] : ty \in {"unparseable", "null", "chat"}}

SocketOpen(w) == SocketOpenBody(w) /\ UNCHANGED hostVars

ClientRecv(w, msg) == ClientRecvBody(w, msg) /\ UNCHANGED hostVars

Init == HostInit /\ ClientInit

NextRemote ==
  \/ CarReady
  \/ \E o \in ProbeOutcomes : StartupProbeDone(checkServerAvailability(o))
  \/ ReconnectTimerFires
  \/ \E o \in ProbeOutcomes : ReconnectProbeDone(checkServerAvailability(o))
  \/ \E w \in WsIds : SocketOpen(w)
  \/ \E w \in WsIds : SocketClose(w)
  \/ \E w \in WsIds : SocketFail(w)
  \/ \E w \in WsIds, msg \in ClientMsgs : ClientRecv(w, msg)
  \/ \E id \in WsIds : CarCreated(id)
  \/ \E id \in WsIds, more \in BOOLEAN : StaleCarCreated(id, more)
  \/ \E d \in RenderDeltas : Tick(d)

SpecRemote == Init /\ [][NextRemote]_vars

\* The client alone on the host: the welcome names no other player and every
\* snapshot carries the client's own car only.  Snapshots come in any order.
SoloMsgs ==
  {WelcomeMsg(1, {}, 1000)}
    \cup {[type |-> "snapshot", tick |-> 0, serverTime |-> t, players |-> {1}] :
            t \in {1000, 1100, 1200}}
    \cup {[type |-> ty] : ty \in {"unparseable", "null", "chat"}}

NextClient ==
  \/ CarReady
  \/ \E o \in ProbeOutcomes : StartupProbeDone(checkServerAvailability(o))
  \/ ReconnectTimerFires
  \/ \E o \in ProbeOutcomes : ReconnectProbeDone(checkServerAvailability(o))
  \/ \E w \in WsIds : SocketOpen(w)
  \/ \E w \in WsIds : SocketClose(w)
  \/ \E w \in WsIds : SocketFail(w)
  \/ \E w \in WsIds, msg \in SoloMsgs : ClientRecv(w, msg)
  \/ \E id \in WsIds : CarCreated(id)
  \/ \E id \in WsIds, more \in BOOLEAN : StaleCarCreated(id, more)
  \/ \E d \in RenderDeltas : Tick(d)

SpecClient == Init /\ [][NextClient]_vars

\* --------------------------------------- the client's frame loop by itself
\* The host sends nothing but a welcome naming no other player, so that no
\* remote car is ever created; frames come at every delta of FrameDeltas.  The
\* clock runs to MaxNow, short of the 2500 ms a reconnect timer waits, so the
\* timer scheduled by a close stays pending.
TickMsgs == {WelcomeMsg(1, {}, 1000)} \cup {[type |-> ty] : ty \in {"unparseable", "null", "chat"}}

NextTick ==
  \/ CarReady
  \/ \E o \in ProbeOutcomes : StartupProbeDone(checkServerAvailability(o))
  \/ \E w \in WsIds : SocketOpen(w)
  \/ \E w \in WsIds : SocketClose(w)
  \/ \E w \in WsIds : SocketFail(w)
  \/ \E w \in WsIds, msg \in TickMsgs : ClientRecv(w, msg)
  \/ \E d \in FrameDeltas : Tick(d)

SpecTick == Init /\ [][NextTick]_vars

\* ------------------------------------------- the client and the others' cars
\* The client reaches a host at once and may lose it.  The host names player 2
\* in its welcome, in player-joined and player-left messages and, with the
\* other players, in its snapshots, of which the client holds one at a time;
\* frames are 100 ms apart.
CarMsgs ==
  {WelcomeMsg(1, {2}, 1000),
   [type |-> "snapshot", tick |-> 0, serverTime |-> 1000, players |-> WsIds],
   [type |-> "player-joined", id |-> 2],
   [type |-> "player-left", id |-> 2]}

CarsRecv(w, msg) == ClientRecvUpTo(w, msg, 1) /\ UNCHANGED hostVars

NextCars ==
  \/ CarReady
  \/ StartupProbeDone(TRUE)
  \/ \E w \in WsIds : SocketOpen(w)
  \/ \E w \in WsIds : SocketClose(w)
  \/ \E w \in WsIds, msg \in CarMsgs : CarsRecv(w, msg)
  \/ \E id \in WsIds : CarCreated(id)
  \/ \E id \in WsIds, more \in BOOLEAN : StaleCarCreated(id, more)
  \/ Tick(100)

SpecCars == Init /\ [][NextCars]_vars

\* ------------------------------------------------- the client rendering
\* The client reaches a host at once and stays connected: the welcome first,
\* then snapshots 0, 100 and 200 ms of server time after it, in any order and
\* any number of times, between frames 100 ms apart.
RenderMsgs ==
  {WelcomeMsg(1, {}, 1000)}
    \cup {[type |-> "snapshot", tick |-> 0, serverTime |-> t, players |-> {1}] :
            t \in {1000, 1100, 1200}}

RenderRecv(w, msg, cap) ==
  /\ (msg.type = "welcome") = (netId = 0)
  /\ ClientRecvUpTo(w, msg, cap)
  /\ UNCHANGED hostVars

NextRender ==
  \/ CarReady
  \/ StartupProbeDone(TRUE)
  \/ \E w \in WsIds : SocketOpen(w)
  \/ \E w \in WsIds, msg \in RenderMsgs : RenderRecv(w, msg, MaxRenderBuf)
  \/ Tick(100)

SpecRender == Init /\ [][NextRender]_vars

\* ------------------------------------------- the client between two frames
\* No frame runs (the page is in the background): the welcome, then snapshots
\* of two server times in any order, as many as the host cares to send.
NextBuffer ==
  \/ CarReady
  \/ StartupProbeDone(TRUE)
  \/ \E w \in WsIds : SocketOpen(w)
  \/ \E w \in WsIds, msg \in {m \in RenderMsgs : m.serverTime <= 1100} :
       RenderRecv(w, msg, SNAPSHOT_CAP + 1)

SpecBuffer == Init /\ [][NextBuffer]_vars

\* ------------------------------------------ the offline world's contacts
\* The client never reaches a host: it runs its offline world, and each frame
\* queues up to two collision events of any kind.  Frames come 100 ms apart, so
\* that each steps the world three times.
\* No event, any one event, or any two events whose bodies resolve.
ContactBatches ==
  {<<>>} \cup {<<e>> : e \in ContactEvents}
    \cup {<<e, f>> : e \in {x \in ContactEvents : x.bodies}, f \in {x \in ContactEvents : x.bodies}}

NextGround ==
  \/ CarReady
  \/ StartupProbeDone(FALSE)
  \/ Tick(100)
  \/ \E evs \in ContactBatches \ {<<>>} : TickContacts(100, evs)

SpecGround == Init /\ [][NextGround]_vars

\* ------------------------------------------------------- the host by itself
ConnectionArrives(w) == cliSock[w] = "unused" /\ ConnectionArrivesBody(w)

\* Sessions coming, going and being swept.  The one frame a peer sends is a
\* well-formed input, which keeps its session fresh.
KeepAliveFrames == {Frame("object", "input", InputFields, 1, 1, FALSE, 1)}

Next ==
  \/ \E ok \in BOOLEAN : PhysicsInitDone(ok)
  \/ \E w \in WsIds : ConnectionArrives(w)
  \/ ResumeConnection
  \/ \E w \in WsIds, f \in KeepAliveFrames : RecvFrame(w, f)
  \/ \E w \in WsIds : PeerClosing(w)
  \/ \E w \in WsIds : CloseEvent(w)
  \/ HeartbeatSweep
  \/ HostClockAdvance

Spec == Init /\ [][Next]_vars

\* Sessions and everything a peer may put in a frame, at one clock reading.
NextInput ==
  \/ \E ok \in BOOLEAN : PhysicsInitDone(ok)
  \/ \E w \in WsIds : ConnectionArrives(w)
  \/ ResumeConnection
  \/ \E w \in WsIds, f \in Frames : RecvFrame(w, f)
  \/ \E w \in WsIds : PeerClosing(w)
  \/ \E w \in WsIds : CloseEvent(w)

SpecInput == Init /\ [][NextInput]_vars

\* Sessions sending inputs, steering left under the lowest sequence number and
\* right under the highest, in either order, while the physics timer runs;
\* world.step() leaves the props at rest.
NextMailbox ==
  \/ PhysicsInitDone(TRUE)
  \/ \E w \in WsIds : ConnectionArrives(w)
  \/ ResumeConnection
  \/ \E w \in WsIds, sq \in {1, MaxSeq} :
       RecvFrameNoted(w, Frame("object", "input", InputFields,
                               IF sq = 1 THEN 0 - 1 ELSE 1, 1, FALSE, sq))
  \/ PhysicsTimer(0, Body(ZeroVec, 0, ZeroVec, ZeroVec), 0)

SpecMailbox == Init /\ [][NextMailbox]_vars

\* Sessions coming and going while the simulation, snapshot and heartbeat
\* timers run.  world.step() leaves the props at rest; the peers send nothing,
\* so every session's lastInput is the one spawnPlayer gave it.
\* The speed of the cars as a step begins: on the clamp's margin, just beyond.
SimSpeeds == {MAX_SPEED + SPEED_MARGIN, MAX_SPEED + SPEED_MARGIN + 1}

NextSim ==
  \/ \E ok \in BOOLEAN : PhysicsInitDone(ok)
  \/ \E w \in WsIds : ConnectionArrives(w)
  \/ ResumeConnection
  \/ \E w \in WsIds : PeerClosing(w)
  \/ \E w \in WsIds : CloseEvent(w)
  \/ \E speed \in SimSpeeds : PhysicsTimer(0, Body(ZeroVec, 0, ZeroVec, ZeroVec), speed)
  \/ SnapshotTimer
  \/ HeartbeatSweep

SpecSim == Init /\ [][NextSim]_vars

\* The same with the host's scheduling: initPhysics settles, a parked
\* handleConnection resumes, a socket that is closing emits 'close', and the
\* heartbeat interval keeps firing.
SpecSimLive ==
  /\ SpecSim
  /\ WF_vars(\E ok \in BOOLEAN : PhysicsInitDone(ok))
  /\ WF_vars(ResumeConnection)
  /\ \A w \in WsIds : WF_vars(CloseEvent(w))
  /\ WF_vars(HeartbeatSweep)

\* Sessions joining, sending an input and leaving while the physics and
\* snapshot timers run;
\* each step, world.step() leaves the props or carries the first dynamic one
\* to a place inside the play area or beyond it.
TimerOutcomes == {Body(pos, 90, <<100, 0, 0>>, <<0, 100, 0>>) :
                    pos \in {<<500, 100, 500>>, <<BOUND_XZ + 1, 100, 0>>}}

NextTimers ==
  \/ PhysicsInitDone(TRUE)
  \/ \E w \in WsIds : ConnectionArrives(w)
  \/ ResumeConnection
  \/ \E w \in WsIds, f \in KeepAliveFrames : RecvFrame(w, f)
  \/ \E w \in WsIds : CloseEvent(w)
  \/ \E moved \in {0, 2}, body \in TimerOutcomes : PhysicsTimer(moved, body, 0)
  \/ SnapshotTimer

SpecTimers == Init /\ [][NextTimers]_vars

\* The props alone: each step, world.step() leaves them or moves any one
\* dynamic prop to any of the outcomes.
NextProps ==
  \/ PhysicsInitDone(TRUE)
  \/ \E moved \in {0} \cup HostPropIds, body \in StepOutcomes : PhysicsTimer(moved, body, 0)

SpecProps == Init /\ [][NextProps]_vars

\* --------------------------------------- the client connected to the host
\* The browser client's connections are the only ones the host gets; what the
\* host sends travels on the wire, and the client handles the frames in order.
\* The client's inputs are left undelivered.

\* wss 'connection' for a connection the client is opening.
ClientConnectionArrives(w) == cliSock[w] = "connecting" /\ ConnectionArrivesBody(w)

\* ws 'open' on the client: the host has accepted the connection.
SystemSocketOpen(w) ==
  /\ hostWs[w] # "none"
  /\ SocketOpenBody(w)
  /\ UNCHANGED hostVars

\* ws 'message' on the client: the oldest frame on the wire.
SystemClientRecv(w) ==
  /\ wire[w] # <<>>
  /\ ClientRecvBody(w, Head(wire[w]))
  /\ wire' = [wire EXCEPT ![w] = Tail(@)]
  /\ UNCHANGED hostVarsButWire

\* ws 'close' on the client, once the host's end is closing or closed; what
\* was still on the wire is lost.
SystemSocketClose(w) ==
  /\ cliSock[w] \in {"connecting", "open", "closing"}
  /\ hostWs[w] \in {"closing", "closed"}
  /\ SetClientState(onSocketClose([ClientState EXCEPT !.cliSock[w] = "closed"]))
  /\ wire' = [wire EXCEPT ![w] = <<>>]
  /\ UNCHANGED hostVarsButWire

NextSystem ==
  \/ \E ok \in BOOLEAN : PhysicsInitDone(ok)
  \/ \E w \in WsIds : ClientConnectionArrives(w)
  \/ ResumeConnection
  \/ \E w \in WsIds : PeerClosing(w)
  \/ \E w \in WsIds : CloseEvent(w)
  \/ PhysicsTimer(0, Body(ZeroVec, 0, ZeroVec, ZeroVec), 0)
  \/ SnapshotTimer
  \/ CarReady
  \/ \E o \in ProbeOutcomes : StartupProbeDone(checkServerAvailability(o))
  \/ ReconnectTimerFires
  \/ \E o \in ProbeOutcomes : ReconnectProbeDone(checkServerAvailability(o))
  \/ \E w \in WsIds : SystemSocketOpen(w)
  \/ \E w \in WsIds : SystemClientRecv(w)
  \/ \E w \in WsIds : SystemSocketClose(w)
  \/ \E d \in RenderDeltas : Tick(d)

SpecSystem == Init /\ [][NextSystem]_vars

\* ================================================================ properties

\* C1: while the client is offline with its world ready, the stepPhysics calls
\* made since stepping began number floor(accumulated time / FIXED_DT), the
\* accumulator holds the remainder, and every call was made with dt = FIXED_DT.
C1_FixedStepCount ==
  /\ stepCount = totalAccum \div FIXED_DT
  /\ accumulator = totalAccum % FIXED_DT
  /\ stepDts \subseteq {FIXED_DT}

\* Four steps made over several frames, a remainder left in the accumulator.
C1_Witness ==
  /\ mode = "offline" /\ offlineWorldReady
  /\ stepCount >= 4 /\ accumulator > 0 /\ frameSteps = 1

\* C2: the accumulator never exceeds MAX_ACCUM, before or after the steps of
\* a frame, and no frame runs more than floor(MAX_ACCUM / FIXED_DT) steps.
C2_AccumulatorCapped ==
  /\ accumulator <= MAX_ACCUM
  /\ frameSteps <= MAX_ACCUM \div FIXED_DT
  /\ frameSteps * FIXED_DT + accumulator <= MAX_ACCUM

\* A 300 ms frame, six times the clamp, has run its three steps.
C2_Witness == now >= 300 /\ frameSteps = 3 /\ accumulator = 0

\* C3: the snapshot buffer is in ascending order of adjusted server time in
\* every state, whatever the order the snapshots arrived in and whatever
\* frames were rendered in between.
C3_BufferSorted ==
  \A i \in 1..(Len(snapshotBuffer) - 1) :
    snapshotClientTime(ClientState, snapshotBuffer[i])
      <= snapshotClientTime(ClientState, snapshotBuffer[i + 1])

\* A frame has been rendered, and the snapshot that arrived last is older than
\* the one at the end of the buffer: it arrived out of order.
C3_Witness ==
  /\ now >= 300
  /\ Len(snapshotBuffer) >= 2
  /\ lastPushed # 0
  /\ lastPushed < snapshotBuffer[Len(snapshotBuffer)].serverTime

C5_ExactlyOnePlayerLeft ==
  \A id \in swept : \A r \in openAtSweep[id] : sentLeft[r][id] = 1

\* C6: at most one reconnect timeout is pending, NETWORK.reconnectTimer is set
\* exactly while it is, and scheduleReconnect with the timer set adds none.
C6_OneReconnectTimer ==
  /\ pendingTimers <= 1
  /\ reconnectTimer <=> pendingTimers = 1
  /\ reconnectTimer => scheduleReconnect(ClientState).pendingTimers = pendingTimers

\* A timer is pending after the second connection closed: a close, an expiry,
\* a probe and another close have all happened.
C6_Witness ==
  /\ pendingTimers = 1 /\ reconnectTimer
  /\ \A w \in 1..2 : cliSock[w] = "closed"

\* C7: a session's entry and its body are removed at most once, a removed
\* session has lost exactly one of each, removePlayer for an id without an
\* entry changes nothing, and every remaining entry keeps a body of its own.
C7_RemovalIdempotent ==
  /\ \A id \in WsIds :
        /\ entryRemovals[id] <= 1
        /\ bodyRemovals[id] = entryRemovals[id]
        /\ (id \in registered /\ id \notin DOMAIN clients) => entryRemovals[id] = 1
        /\ id \notin DOMAIN clients =>
              [removePlayer(HostState, id) EXCEPT !.removeCalls = removeCalls] = HostState
  /\ \A a \in DOMAIN clients :
        /\ clients[a].bodyHandle \in bodies
        /\ \A b \in DOMAIN clients : clients[a].bodyHandle = clients[b].bodyHandle => a = b
  /\ Cardinality(bodies) = Cardinality(DOMAIN clients)

\* The sweep and then the close event both called removePlayer for a session,
\* while another session stays in the Map.
C7_Witness ==
  \E id \in swept \cap closeHandled :
    /\ removeCalls[id] = 2 /\ entryRemovals[id] = 1 /\ bodyRemovals[id] = 1
    /\ DOMAIN clients # {}

\* C8 as stated: a session's lastSeq never decreases.
C8_LastSeqMonotone ==
  [][\A id \in DOMAIN clients \cap DOMAIN clients' :
       clients'[id].lastSeq >= clients[id].lastSeq]_vars

\* C9 as stated: a malformed frame changes no session and nothing in the
\* world, and the host survives it.
C9_MalformedDropped ==
  [][\A w \in WsIds, f \in MalformedFrames :
       RecvFrame(w, f) =>
         /\ ~crashed'
         /\ \A id \in DOMAIN clients :
               /\ id \in DOMAIN clients'
               /\ clients'[id].lastInput = clients[id].lastInput
               /\ clients'[id].lastSeq = clients[id].lastSeq
         /\ bodies' = bodies]_vars

\* C10: a joined session's welcome lists every session that was connected
\* when it joined and not itself, every one of those that was open has been
\* sent exactly one player-joined for it, and nobody else has, itself included.
C10_WelcomeAndJoined ==
  \A w \in registered :
    /\ welcome[w].players = joinInfo[w].others
    /\ w \notin welcome[w].players
    /\ \A r \in WsIds :
          sentJoined[r][w] = IF r \in joinInfo[w].openOthers THEN 1 ELSE 0

\* The second session joined while the first was open: its welcome lists the
\* first, which has been sent the one player-joined.
C10_Witness ==
  /\ {1, 2} \subseteq registered
  /\ welcome[2].sent /\ welcome[2].players = {1}
  /\ sentJoined[1][2] = 1 /\ sentJoined[2][2] = 0

\* C11: when the startup probe fails, however it fails, startup ends offline
\* with the 20 local props, no remote player, no server prop, the status
\* indicator offline and a reconnect timer armed.
C11_FailedProbeEndsOffline ==
  [][\A o \in ProbeOutcomes \ {"ok"} :
       StartupProbeDone(checkServerAvailability(o)) =>
         /\ phase' = "running"
         /\ mode' = "offline" /\ offlineWorldReady'
         /\ clientProps' = OFFLINE_PROP_COUNT
         /\ \A id \in WsIds : remotePlayers'[id] = "none"
         /\ serverProps' = {}
         /\ ~statusOnline'
         /\ reconnectTimer' /\ pendingTimers' = 1
         /\ \A w \in WsIds : cliSock'[w] = "unused"]_vars

\* Startup is over, no connection was ever tried, and the client is offline
\* with its local world and a timer pending: the startup probe failed.
C11_Witness ==
  /\ phase = "running"
  /\ \A w \in WsIds : cliSock[w] = "unused"
  /\ mode = "offline" /\ clientProps = OFFLINE_PROP_COUNT /\ reconnectTimer

\* C12: mode transitions are idempotent.  ensureOfflineWorld in the offline
\* world leaves its 20 props as they are, and doing it twice is doing it once;
\* a welcome handled again leaves one mesh in the scene for each host prop id
\* and one remote-player entry for each listed player, as the first did.
C12_ModeTransitionsIdempotent ==
  /\ mode = "offline" /\ offlineWorldReady =>
        /\ clientProps = OFFLINE_PROP_COUNT
        /\ ensureOfflineWorld(ClientState).clientProps = OFFLINE_PROP_COUNT
        /\ ensureOfflineWorld(ensureOfflineWorld(ClientState)).clientProps
             = OFFLINE_PROP_COUNT
  /\ \A id \in HostPropIds : propMeshes[id] = IF id \in serverProps THEN 1 ELSE 0
  /\ \A msg \in {m \in ClientMsgs : m.type = "welcome"} :
        LET once == handleMessage(ClientState, msg)
            again == handleMessage(once, msg)
        IN /\ again.serverProps = msg.props /\ again.propMeshes = once.propMeshes
           /\ \A id \in HostPropIds : again.propMeshes[id] = 1
           /\ again.remotePlayers = once.remotePlayers
           /\ \A id \in WsIds : again.remotePlayers[id] # "none" <=> id \in msg.players

\* Both have happened: ensureOfflineWorld has run in the offline world and a
\* welcome has been handled with the host's props already adopted.
C12_Witness ==
  /\ repeats = {"ensureOfflineWorld", "welcome"}
  /\ mode = "online" /\ serverProps = HostPropIds

\* C13: a welcome, once handled, leaves the client online with the host's
\* world and nothing of its own (no local prop, offlineWorldReady false, an
\* empty snapshot buffer, the server props and the remote players exactly
\* those the welcome lists), and the mode becomes online in no step but the
\* handling of a welcome.
C13_OnlineOnWelcome ==
  [][/\ \A w \in WsIds : \A msg \in {m \in ClientMsgs : m.type = "welcome"} :
          ClientRecvBody(w, msg) =>
            /\ mode' = "online"
            /\ clientProps' = 0 /\ ~offlineWorldReady'
            /\ snapshotBuffer' = <<>>
            /\ serverProps' = msg.props
            /\ \A id \in WsIds : remotePlayers'[id] # "none" <=> id \in msg.players
     /\ mode # "online" /\ mode' = "online" =>
          \E w \in WsIds : \E msg \in {m \in ClientMsgs : m.type = "welcome"} :
            ClientRecvBody(w, msg)]_vars

\* C14: when a connection that had opened closes, the client is offline
\* again with 20 local props and its physics stepping (the props spawned anew
\* if a welcome had discarded them), the snapshot buffer, the server props and
\* the remote players are cleared, and a reconnect timer is pending.
C14_CloseRevertsToOffline ==
  [][\A w \in WsIds :
       cliSock[w] \in {"open", "closing"} /\ cliSock'[w] = "closed" =>
         /\ socket' = 0
         /\ mode' = "offline" /\ offlineWorldReady' /\ ~statusOnline'
         /\ clientProps' = OFFLINE_PROP_COUNT
         /\ ~offlineWorldReady => clientProps = 0
         /\ snapshotBuffer' = <<>>
         /\ serverProps' = {} /\ \A id \in HostPropIds : propMeshes'[id] = 0
         /\ \A id \in WsIds : remotePlayers'[id] = "none"
         /\ reconnectTimer' /\ pendingTimers' = 1]_vars

\* A connection that had been welcomed has closed and the local world is back.
C14_Witness ==
  /\ \E w \in WsIds : cliSock[w] = "closed"
  /\ netId # 0
  /\ mode = "offline" /\ offlineWorldReady /\ clientProps = OFFLINE_PROP_COUNT
  /\ reconnectTimer

\* C15: no physics step applies the input of a session whose socket is not
\* OPEN, and no step made after a connection's close event finds the body of
\* that connection's session in the world.
C15_DisconnectStopsSession ==
  /\ lastStep.appliedNotOpen = {}
  /\ lastStep.closedSeen = {}

\* C16: after a physics tick, each dynamic prop that world.step() left with
\* |x| > 200, y < -20 or |z| > 200 is at its initial position and rotation
\* with zero linear and angular velocity, and every other prop is as
\* world.step() left it; a non-dynamic prop is never changed, wherever it is.
C16_OutOfBoundsPropsReset ==
  /\ lastStep.stepped # <<>> =>
        \A i \in HostPropIds :
          LET b == lastStep.stepped[i]
              outside == b.p[1] > 20000 \/ b.p[1] < 0 - 20000 \/ b.p[2] < 0 - 2000
                           \/ b.p[3] > 20000 \/ b.p[3] < 0 - 20000
          IN propBody[i] = IF PROPS[i].dynamic /\ outside
                             THEN [p |-> PROPS[i].p, yaw |-> PROPS[i].yaw,
                                   lv |-> <<0, 0, 0>>, av |-> <<0, 0, 0>>]
                             ELSE b
  /\ \A i \in HostPropIds : \A b \in StepOutcomes :
        ~PROPS[i].dynamic => resetPropIfOutOfBounds(PROPS[i], b) = b

\* One prop was carried beyond x = 200 by the last step and is back at its
\* initial transform, while another, moved earlier, stays where it was moved.
C16_Witness ==
  /\ lastStep.stepped # <<>>
  /\ \E i \in HostPropIds :
        /\ PROPS[i].dynamic /\ lastStep.stepped[i].p[1] > 20000
        /\ propBody[i] = createProps[i]
  /\ \E j \in HostPropIds : propBody[j] # createProps[j] /\ propBody[j] = lastStep.stepped[j]

\* C17 as stated: at alpha = 0 the interpolated position is exactly P0, at
\* alpha = 1 exactly P1, and for alpha in between each component is monotonic
\* in alpha and lies between the components of P0 and P1.
C17_LerpExactMonotoneBetween ==
  interp.done =>
    \A i \in 1..3 :
      LET x0 == interp.a.p[i]
          x1 == interp.b.p[i]
          at(al) == interpolateState(interp.a, interp.b, al).p[i]
      IN /\ at(0) = x0 /\ at(ONE) = x1
         /\ interp.out.p[i] = at(interp.alpha)
         /\ Min(x0, x1) <= at(interp.alpha) /\ at(interp.alpha) <= Max(x0, x1)
         /\ \A al \in Alphas :
               al <= interp.alpha =>
                 IF x0 <= x1 THEN at(al) <= at(interp.alpha) ELSE at(al) >= at(interp.alpha)

\* C17, amended: exact at alpha = 0 and alpha = 1; in between each component
\* is within three units in the last place (of the larger of |P0| and |P1|)
\* of the exact value (1 - alpha) P0 + alpha P1, which is monotonic in alpha
\* and lies between P0 and P1.
C17_LerpExactAtEndsNearBetween ==
  interp.done =>
    \A i \in 1..3 :
      LET x0 == interp.a.p[i]
          x1 == interp.b.p[i]
          at(al) == interpolateState(interp.a, interp.b, al).p[i]
          exact == (ONE - interp.alpha) * x0 + interp.alpha * x1
          err == 3 * Ulp(Max(Abs(x0), Abs(x1)), 1) * ONE
      IN /\ at(0) = x0 /\ at(ONE) = x1
         /\ interp.out.p[i] = at(interp.alpha)
         /\ Abs(ONE * interp.out.p[i] - exact) <= err

\* An interpolation strictly inside (0, 1) between two different positions
\* has been made and came out strictly between them.
C17_Witness ==
  /\ interp.done
  /\ 0 < interp.alpha /\ interp.alpha < ONE
  /\ interp.a.p[1] < interp.out.p[1] /\ interp.out.p[1] < interp.b.p[1]

\* C18, on the host: in every step that begins with a controlled entity
\* faster than maxSpeed + 0.35, applyInputs gives that entity the speed-clamp
\* impulse, and it gives it to no entity within the margin.
C18_HostClampsOverspeed ==
  lastStep.clamped = lastStep.fast

\* C19: once loading the physics library has failed it stays failed; no
\* session entry, body or listener is ever created and no welcome sent; every
\* connection the host has dealt with is closing or closed; the simulation,
\* snapshot and heartbeat timers do not exist and have never run; and the
\* process, with its HTTP server, is still up.
C19_NoMultiplayerWithoutPhysics ==
  /\ [](physics = "failed" =>
          /\ DOMAIN clients = {} /\ bodies = {} /\ registered = {} /\ live = {}
          /\ \A w \in WsIds : ~welcome[w].sent
          /\ \A w \in WsIds :
                hostWs[w] # "none" /\ (\A k \in DOMAIN awaiting : awaiting[k] # w) =>
                  hostWs[w] \in {"closing", "closed"}
          /\ ~loopsStarted
          /\ tick = 0 /\ lastStep.stepped = <<>> /\ stamps.last = -1 /\ swept = {}
          /\ ~crashed)
  /\ [][physics = "failed" => physics' = "failed"]_vars

\* The load has failed; a connection that had been waiting for it and one
\* that arrived afterwards have both been closed by the host.
C19_Witness ==
  /\ physics = "failed"
  /\ awaiting = <<>>
  /\ \A w \in WsIds : hostWs[w] \in {"closing", "closed"}

\* C20: a snapshot the host builds has a record for each session that is in
\* clients with its body in the world, and for no other session (none that
\* removePlayer has removed); it has a record for each dynamic prop and for
\* no fixed one.
C20_SnapshotContents ==
  [][stamps' # stamps =>
       /\ stamps'.players = {id \in DOMAIN clients : clients[id].bodyHandle \in bodies}
       /\ \A id \in stamps'.players : entryRemovals[id] = 0 /\ bodyRemovals[id] = 0
       /\ \A i \in HostPropIds : i \in stamps'.props <=> PROPS[i].dynamic]_vars

\* A snapshot was built while one session was connected and another had been
\* removed: it has the one player record and the ten dynamic props.
C20_Witness ==
  /\ stamps.last >= 0
  /\ Cardinality(stamps.players) = 1
  /\ \E id \in WsIds : entryRemovals[id] > 0 /\ id \notin stamps.players
  /\ Cardinality(stamps.props) = 10 /\ tick > 0

\* C21: the player's ground state is a count of contacts.  The count is never
\* negative and playerGrounded is TRUE exactly when it is positive; a frame whose
\* events do not involve the player's collider leaves both as they were; and
\* when two or more contacts are counted, a frame whose one event on the
\* player's collider is the end of a contact leaves playerGrounded TRUE.
C21_GroundStateCounted ==
  /\ [](playerGroundContacts >= 0 /\ playerGrounded = (playerGroundContacts > 0))
  /\ [][LET evs == contactEvents'
            onPlayer == {i \in 1..Len(evs) : evs[i].h1 = "player" \/ evs[i].h2 = "player"}
        IN phase = "running" =>
             /\ onPlayer = {} =>
                  /\ playerGroundContacts' = playerGroundContacts
                  /\ playerGrounded' = playerGrounded
             /\ (/\ playerGroundContacts >= 2
                 /\ \E i \in 1..Len(evs) : onPlayer = {i} /\ ~evs[i].started) =>
                  /\ playerGrounded'
                  /\ playerGroundContacts' = playerGroundContacts - 1]_vars

\* Two contacts were counted and a frame brought the end of one of them, next
\* to an event between two other colliders.
C21_Witness ==
  /\ playerGroundContacts = 1
  /\ playerGrounded
  /\ Len(contactEvents) = 2
  /\ \E i \in 1..2 : /\ "player" \in {contactEvents[i].h1, contactEvents[i].h2}
                     /\ ~contactEvents[i].started
                     /\ "player" \notin {contactEvents[3 - i].h1, contactEvents[3 - i].h2}

\* C22: the heartbeat sweep closes no open session heard from within the last
\* two heartbeat intervals: it pings each of them, and each stays in clients
\* with its body in the world and its lastInput and lastSeq as they were.
C22_SweepSparesFreshSessions ==
  /\ [](lastSweep.unpinged = {})
  /\ [][lastSweep' # lastSweep \/ swept' # swept =>
          \A id \in DOMAIN clients :
            (IsOpen(HostState, clients[id].ws)
               /\ hostNow - clients[id].lastSeen <= 2 * HEARTBEAT_MS) =>
              /\ id \notin swept'
              /\ id \in DOMAIN clients'
              /\ clients'[id] = clients[id]
              /\ clients'[id].bodyHandle \in bodies'
              /\ hostWs'[clients[id].ws] = "open"]_vars

\* A sweep met a session last heard from exactly two heartbeat intervals
\* before, pinged it and closed another that had been silent for longer.
C22_Witness ==
  /\ lastSweep.atLimit
  /\ \E id \in DOMAIN clients :
       /\ hostNow - clients[id].lastSeen = 2 * HEARTBEAT_MS
       /\ clients[id].lastSeq > 0
  /\ swept # {}

\* C23: a frame's pruning of a non-empty snapshot buffer leaves a suffix of
\* the buffer sorted by server time; each entry it removed was removed while
\* more than 2 entries were left and the second one's adjusted time was at or
\* before the render time; a buffer of 2 or more entries keeps at least 2; and
\* what is left has at most 2 entries or a second entry after the render time.
C23_PruneFrontOnly ==
  [][(now' # now /\ mode = "online" /\ snapshotBuffer # <<>>) =>
       LET sorted == SortByServerTime(snapshotBuffer)
           left == snapshotBuffer'
           k == Len(sorted) - Len(left)
           renderTime == now' - SNAPSHOT_DELAY_MS
       IN /\ k >= 0
          /\ left = SubSeq(sorted, k + 1, Len(sorted))
          /\ \A j \in 1..k : /\ Len(sorted) - (j - 1) > 2
                             /\ sorted[j + 1].serverTime + serverTimeOffset <= renderTime
          /\ Len(left) >= Min(2, Len(sorted))
          /\ Len(left) <= 2 \/ left[2].serverTime + serverTimeOffset > renderTime]_vars

\* A frame has pruned two entries of a buffer of five and stopped with three
\* left, the second of them after the render time.
C23_Witness ==
  /\ render.on
  /\ render.pruned = 2
  /\ Len(snapshotBuffer) = 3
  /\ snapshotBuffer[1].serverTime + serverTimeOffset <= render.renderTime
  /\ snapshotBuffer[2].serverTime + serverTimeOffset > render.renderTime
  /\ lastPushed # 0
  /\ render.prevTime = snapshotBuffer[1].serverTime + serverTimeOffset

\* C24: a frame that finds snapshots interpolates from prev, the front of the
\* pruned buffer, to next, the first entry whose adjusted time is at or after
\* the render time, or the last entry when there is none; next is not earlier
\* than prev, and alpha lies between 0 and 1.
C24_BracketAndAlpha ==
  [][(now' # now /\ mode = "online" /\ snapshotBuffer # <<>>) =>
       LET buf == snapshotBuffer'
           renderTime == now' - SNAPSHOT_DELAY_MS
           after == {i \in 1..Len(buf) : buf[i].serverTime + serverTimeOffset >= renderTime}
           nx == IF after = {} THEN Len(buf) ELSE CHOOSE i \in after : \A j \in after : i <= j
       IN /\ render'.on
          /\ render'.renderTime = renderTime
          /\ render'.prevTime = buf[1].serverTime + serverTimeOffset
          /\ render'.nextTime = buf[nx].serverTime + serverTimeOffset
          /\ render'.prevTime <= render'.nextTime
          /\ render'.den > 0
          /\ 0 <= render'.num
          /\ render'.num <= render'.den]_vars

\* A frame found one snapshot, which was both prev and next, with the render
\* time past it: alpha was 1.
C24_Witness ==
  /\ render.on
  /\ Len(snapshotBuffer) = 1
  /\ render.prevTime = render.nextTime
  /\ render.renderTime > render.nextTime + 1
  /\ render.num = render.den

\* C25: for an entity that only one of the two snapshots holds, the
\* interpolated state is the state that snapshot holds, whatever alpha is; for
\* one that neither holds there is no interpolated state.
C25_MissingSideStationary ==
  interp.done =>
    /\ (interp.a.present /\ ~interp.b.present) =>
         /\ interp.out = interp.a
         /\ \A al \in Alphas : interpolateState(interp.a, interp.b, al) = interp.a
    /\ (~interp.a.present /\ interp.b.present) =>
         /\ interp.out = interp.b
         /\ \A al \in Alphas : interpolateState(interp.a, interp.b, al) = interp.b
    /\ (~interp.a.present /\ ~interp.b.present) => ~interp.out.present

\* An entity held by the later snapshot only has been interpolated strictly
\* inside (0, 1), away from the origin, and came out as the later snapshot has it.
C25_Witness ==
  /\ interp.done
  /\ ~interp.a.present /\ interp.b.present
  /\ 0 < interp.alpha /\ interp.alpha < ONE
  /\ interp.b.p[1] # 0
  /\ interp.out = interp.b

\* C26: the snapshot buffer never holds more than 90 entries.  Handling a
\* snapshot adds it to the buffer; when that makes 91, one entry of the least
\* server time among the 91 is dropped, so that no entry left is older than
\* the one dropped.
C26_BufferCapKeepsNewest ==
  /\ [](Len(snapshotBuffer) <= SNAPSHOT_CAP)
  /\ [][(now' = now /\ lastPushed' # 0
           /\ (snapshotBuffer' # snapshotBuffer \/ lastPushed' # lastPushed)) =>
          LET t == lastPushed'
              count(buf, v) == Cardinality({i \in 1..Len(buf) : buf[i].serverTime = v})
              times == {snapshotBuffer[i].serverTime : i \in 1..Len(snapshotBuffer)} \cup {t}
              least == CHOOSE v \in times : \A u \in times : v <= u
              added(v) == IF v = t THEN 1 ELSE 0
              dropped(v) == IF Len(snapshotBuffer) = SNAPSHOT_CAP /\ v = least THEN 1 ELSE 0
          IN /\ \A v \in times :
                  count(snapshotBuffer', v) = count(snapshotBuffer, v) + added(v) - dropped(v)
             /\ \A i \in 1..Len(snapshotBuffer') :
                  /\ snapshotBuffer'[i].serverTime \in times
                  /\ snapshotBuffer'[i].serverTime >= least]_vars

\* The buffer is full of snapshots of the later server time, and the snapshot
\* handled last, of the earlier one, is not in it: it was dropped on arrival.
C26_Witness ==
  /\ Len(snapshotBuffer) = SNAPSHOT_CAP
  /\ lastPushed = 1000
  /\ \A i \in 1..Len(snapshotBuffer) : snapshotBuffer[i].serverTime = 1100

\* C27: the accumulator is at least 0 and less than FIXED_DT after every
\* frame, so that alpha = accumulator / FIXED_DT is in [0, 1); and a frame
\* that does not find the client offline with its offline world ready sets the
\* accumulator to 0 and steps nothing.
C27_AccumulatorBelowOneStep ==
  /\ [](0 <= accumulator /\ accumulator < FIXED_DT)
  /\ [][(now' # now /\ ~(mode = "offline" /\ offlineWorldReady)) =>
          accumulator' = 0 /\ frameSteps' = 0]_vars

\* A frame made three steps and left a remainder.
C27_Witness ==
  /\ mode = "offline" /\ offlineWorldReady
  /\ frameSteps = 3
  /\ accumulator > 0

\* C28: a frame calls stepPhysics only when it finds the mode offline and the
\* offline world ready, and calls applySnapshotInterpolation and sendInput only
\* when it finds the mode online; no frame calls stepPhysics and either of the
\* other two.
C28_LocalOrRemotePerFrame ==
  [][now' # now =>
       LET remote == {"applySnapshotInterpolation", "sendInput"}
       IN /\ "stepPhysics" \in frameCalls' => (mode = "offline" /\ offlineWorldReady)
          /\ frameCalls' \cap remote # {} => mode = "online"
          /\ ~("stepPhysics" \in frameCalls' /\ frameCalls' \cap remote # {})
          /\ mode' = mode]_vars

\* A frame found the mode online while the offline world was still marked
\* ready (the socket had opened, no welcome had come), and stepped nothing.
C28_Witness ==
  /\ mode = "online" /\ offlineWorldReady
  /\ frameCalls = {"applySnapshotInterpolation", "sendInput"}
  /\ frameSteps = 0

\* C29: a step in which a session's entry changes while it stays in clients
\* (the host handling an input message from it) changes that entry's
\* lastInput, lastSeq and lastSeen only: the entry's socket and body, every
\* other entry, the bodies in the world, the props, the tick, the clock and
\* the sockets are as before, and nothing is sent.
C29_InputTouchesOwnSessionOnly ==
  [][\A id \in DOMAIN clients \cap DOMAIN clients' :
       clients'[id] # clients[id] =>
         /\ clients'[id].ws = clients[id].ws
         /\ clients'[id].bodyHandle = clients[id].bodyHandle
         /\ DOMAIN clients' = DOMAIN clients
         /\ \A other \in DOMAIN clients \ {id} : clients'[other] = clients[other]
         /\ UNCHANGED <<bodies, propBody, lastStep, tick, stamps, hostNow, hostWs, registered,
                        awaiting, physics, loopsStarted>>
         /\ UNCHANGED <<wire, sentJoined, sentLeft, welcome, removeCalls, swept>>
         /\ ~crashed']_vars

\* Two sessions are connected; one has sent an input since the clock moved
\* on, the other has sent none.
C29_Witness ==
  \E id \in DOMAIN clients, other \in DOMAIN clients :
    /\ id # other
    /\ clients[id].lastSeq > 0
    /\ clients[id].lastInput # ZeroInput
    /\ clients[id].lastSeen > HostEpoch
    /\ clients[other].lastSeq = 0
    /\ clients[other].lastInput = ZeroInput
    /\ clients[other].lastSeen = HostEpoch

\* C30: a physics step reads one input per session.  For a session that has
\* had input messages handled since the step before, it is the input of the
\* last of them, however many there were; for one that has had none, it is
\* the input the step before read, or the neutral input spawnPlayer gave the
\* session if no step has read one.
C30_SingleSlotMailbox ==
  [][tick' # tick =>
       \A id \in applyInputs(HostState) :
         LET f == heard[id].last
         IN IF heard[id].n > 0
              THEN lastStep'.inputs[id] =
                     [steer |-> IF "steer" \in f.has THEN f.steer ELSE 0,
                      throttle |-> IF "throttle" \in f.has THEN f.throttle ELSE 0,
                      brake |-> f.brake]
              ELSE lastStep'.inputs[id] = lastStep.inputs[id]]_vars

\* A step read, for a session that had sent two inputs or more since the step
\* before, the input of the last one, which carried the lower sequence number;
\* and no input has come since.
C30_Witness ==
  \E id \in DOMAIN clients :
    /\ id \in lastStep.several
    /\ heard[id].n = 0
    /\ lastStep.inputs[id].steer = 0 - 1
    /\ clients[id].lastSeq = 1
    /\ clients[id].lastInput = lastStep.inputs[id]

\* C31: a firing of the physics timer reads each session's input as it was
\* before the firing, steps the world from the props as they were, raises tick
\* by exactly 1 and leaves each prop as the out-of-bounds check makes it of
\* what the step left.  A firing of the snapshot timer that sends anything
\* finds a session in clients, stamps the current tick, which is not below the
\* tick of the snapshot before, and changes neither tick, props, sessions,
\* bodies nor sockets.
C31_TimersInOrder ==
  [][/\ tick' # tick =>
          /\ tick' = tick + 1
          /\ \A id \in DOMAIN clients :
               (hostWs[id] = "open" /\ clients[id].bodyHandle \in bodies) =>
                 lastStep'.inputs[id] = clients[id].lastInput
          /\ \A i \in HostPropIds :
               LET b == lastStep'.stepped[i]
                   outside == b.p[1] > 20000 \/ b.p[1] < 0 - 20000 \/ b.p[2] < 0 - 2000
                                \/ b.p[3] > 20000 \/ b.p[3] < 0 - 20000
               IN /\ ~PROPS[i].dynamic => b = propBody[i]
                  /\ propBody'[i] = IF PROPS[i].dynamic /\ outside
                                      THEN [p |-> PROPS[i].p, yaw |-> PROPS[i].yaw,
                                            lv |-> <<0, 0, 0>>, av |-> <<0, 0, 0>>]
                                      ELSE b
          /\ UNCHANGED <<stamps, clients, bodies, hostWs>>
     /\ stamps' # stamps =>
          /\ DOMAIN clients # {}
          /\ stamps'.last = tick
          /\ stamps'.last >= stamps.last
          /\ UNCHANGED <<tick, propBody, clients, bodies, hostWs>>]_vars

\* Two physics firings have run, the last of them read a session's input,
\* carried a prop out of the play area and the check put it back; a snapshot
\* stamped with the tick they reached has been sent since.
C31_Witness ==
  /\ tick = 2
  /\ stamps.last = 2
  /\ stamps.players # {}
  /\ lastStep.stepped # <<>>
  /\ lastStep.stepped[2].p[1] > 20000
  /\ propBody[2] = createProps[2]
  /\ \E id \in DOMAIN clients : lastStep.inputs[id] # ZeroInput

\* C32: every session's body was created at the spawn slot its id alone
\* selects, the hash of the id modulo the slot table, however many sessions
\* were connected at the time.
C32_SpawnSlotFromIdAlone ==
  \A id \in DOMAIN clients : clients[id].spawn = getSafeSpawnTransform(IdText(id))

\* C33: no entry of a connection whose transport has closed stays in clients
\* forever: time and again the connection is not closed or has no entry.
C33_ClosedSessionsLeaveClients ==
  \A w \in WsIds : []<>(~(hostWs[w] = "closed" /\ w \in DOMAIN clients))

\* C34: no car is in the scene but through an entry of remotePlayers: a
\* creation that completes after its placeholder was removed adds nothing.
C34_NoCarWithoutEntry ==
  orphanCars = {}

\* C35: for each id, the entry remotePlayers holds has had exactly one car
\* creation started for it, whoever has asked for the id since, and an id
\* without an entry has none.
C35_OneCreationPerEntry ==
  \A id \in WsIds :
    carJobs[id].made = IF remotePlayers[id] = "none" THEN 0 ELSE 1

\* Player 2's car is still loading, and the welcome, a player-joined message,
\* a snapshot and a frame's interpolation have all asked for it.
C35_Witness ==
  /\ remotePlayers[2] = "loading"
  /\ carJobs[2] = [made |-> 1,
                   askedBy |-> {"welcome", "player-joined", "snapshot", "interpolation"}]

\* C36: while the mode is offline the client holds nothing of the host's: no
\* snapshot in the buffer, no server prop, no remote-player entry.
C36_OfflineHoldsNoHostState ==
  mode = "offline" =>
    /\ snapshotBuffer = <<>>
    /\ serverProps = {}
    /\ \A id \in WsIds : remotePlayers[id] = "none"

\* The client is offline again after a welcome had given it the host's props
\* and a snapshot had made it start a car: the connection is closed, the car's
\* creation is still running, and a reconnect probe is under way.
C36_Witness ==
  /\ mode = "offline"
  /\ netId # 0
  /\ \E w \in WsIds : cliSock[w] = "closed"
  /\ staleJobs # {}
  /\ timerProbes > 0
  /\ snapshotBuffer = <<>> /\ serverProps = {}

\* The status indicator, with the error listener and the close listener of a
\* failing connection as the two listener calls they are.  The browser fires
\* error and close from one task, so nothing else runs between them; a socket
\* whose error listener has run and whose close listener has not is "failed".
BetweenTasks == \A w \in WsIds : cliSock[w] # "failed"

\* ws 'error': lines 1417-1419.
SocketError(w) ==
  /\ BetweenTasks
  /\ cliSock[w] \in {"connecting", "open", "closing"}
  /\ SetClientState(setNetStatus([ClientState EXCEPT !.cliSock[w] = "failed"], FALSE))
  /\ UNCHANGED hostVars

\* ws 'close' of the connection that failed: lines 1412-1416.
SocketCloseAfterError(w) ==
  /\ cliSock[w] = "failed"
  /\ SetClientState(onSocketClose([ClientState EXCEPT !.cliSock[w] = "closed"]))
  /\ UNCHANGED hostVars

NextStatus ==
  \/ BetweenTasks /\ CarReady
  \/ \E o \in ProbeOutcomes : BetweenTasks /\ StartupProbeDone(checkServerAvailability(o))
  \/ BetweenTasks /\ ReconnectTimerFires
  \/ \E o \in ProbeOutcomes : BetweenTasks /\ ReconnectProbeDone(checkServerAvailability(o))
  \/ \E w \in WsIds : BetweenTasks /\ SocketOpen(w)
  \/ \E w \in WsIds : BetweenTasks /\ SocketClose(w)
  \/ \E w \in WsIds : SocketError(w)
  \/ \E w \in WsIds : SocketCloseAfterError(w)
  \/ \E w \in WsIds, msg \in SoloMsgs : BetweenTasks /\ ClientRecv(w, msg)

SpecStatus == Init /\ [][NextStatus]_vars

\* C37 (as claimed): in every state the indicator shows online exactly when
\* the mode is online.
C37_StatusAlwaysAgrees == statusOnline <=> (mode = "online")

\* C37 (amended): the indicator never shows online while the mode is offline,
\* and it shows online whenever the mode is online except between the error
\* listener and the close listener of a connection that failed while open.
C37_StatusAgreesBetweenTasks ==
  /\ statusOnline => mode = "online"
  /\ BetweenTasks => (statusOnline <=> (mode = "online"))

\* Online with the indicator on after a reconnect, between the open of the
\* second connection and its welcome.
C37_Witness ==
  /\ mode = "online" /\ statusOnline
  /\ \E w \in WsIds : cliSock[w] = "open" /\ socket = w
  /\ \E w \in WsIds : cliSock[w] = "closed"
  /\ snapshotBuffer = <<>> /\ serverProps = {}

\* The reconnect cycle without end: a closed WebSocket is referenced by nothing
\* (the close listener has set NETWORK.socket to null), so its place is free
\* for the connection of a later initNetwork.
SocketForgotten(w) ==
  /\ cliSock[w] = "closed"
  /\ SetClientState([ClientState EXCEPT !.cliSock[w] = "unused"])
  /\ UNCHANGED hostVars

ReconnectMsgs == {WelcomeMsg(1, {}, 1000)}

NextReconnect ==
  \/ CarReady
  \/ \E o \in ProbeOutcomes : StartupProbeDone(checkServerAvailability(o))
  \/ ReconnectTimerFires
  \/ \E o \in ProbeOutcomes : ReconnectProbeDone(checkServerAvailability(o))
  \/ \E w \in WsIds : SocketOpen(w)
  \/ \E w \in WsIds : SocketClose(w)
  \/ \E w \in WsIds : SocketFail(w)
  \/ \E w \in WsIds : SocketForgotten(w)
  \/ \E w \in WsIds, msg \in ReconnectMsgs : ClientRecv(w, msg)

\* setupPlayerCar resolves, a fetch settles (checkServerAvailability aborts it
\* after its timeout), a timeout fires, a connecting socket opens or fails, and
\* a closed socket is let go.
SpecReconnect ==
  /\ Init /\ [][NextReconnect]_vars
  /\ WF_vars(CarReady)
  /\ WF_vars(\E o \in ProbeOutcomes : StartupProbeDone(checkServerAvailability(o)))
  /\ WF_vars(ReconnectTimerFires)
  /\ WF_vars(\E o \in ProbeOutcomes : ReconnectProbeDone(checkServerAvailability(o)))
  /\ WF_vars(\E w \in WsIds : SocketOpen(w) \/ SocketFail(w))
  /\ WF_vars(\E w \in WsIds : SocketForgotten(w))

\* A step that shows the host out of reach: a probe that fails, a connection
\* that fails or closes.
HostUnreachable ==
  \/ StartupProbeDone(FALSE)
  \/ ReconnectProbeDone(FALSE)
  \/ \E w \in WsIds : SocketFail(w) \/ SocketClose(w)

====
